---- MODULE Spec2Model ----
(***************************************************************************)
(* Face clustering engine of web/packages/new/photos/services/ml/cluster:  *)
(* clusterFaces (bootstrap from saved cgroups and local clusters, batched  *)
(* linear clustering with lookback) and reconcileClusters (write-back of   *)
(* grown cgroups, local save of the remaining clusters).                   *)
(*                                                                         *)
(* Conventions.  Face ids are the integers 1..n, n the length of the       *)
(* ordered face list; cluster ids are integers (seed ids below FreshBase,  *)
(* generated ids from FreshBase on).  Embeddings are integer vectors in    *)
(* units of 1/100, so cosine similarities are integers in units of         *)
(* 1/10000: 0.76 is 7600, 0.84 is 8400, 0.90 is 9000.  Loop positions i, j *)
(* and offset are 0-based as in the source; sequences are 1-based, so the  *)
(* face at position i is faces[i + 1].                                     *)
(***************************************************************************)
EXTENDS Integers, Sequences, FiniteSets, TLC

(***************************************************************************)
(* Bounds of the model.  batchSize, offsetIncrement and progressEvery are  *)
(* the source's 10000, 7500 and 100 scaled down so that several            *)
(* overlapping batches and several yield points per batch occur within     *)
(* MaxFaces faces; as in the source offsetIncrement < batchSize and the    *)
(* last report position of a full batch lies beyond offsetIncrement.       *)
(***************************************************************************)
MaxFaces == 4
MaxRuns == 2
batchSize == 3
offsetIncrement == 1
progressEvery == 2
MaxReconciles == 2

(* Similarity thresholds of clusterBatchLinear, in units of 1/10000. *)
badFaceThreshold == 8400
goodFaceThreshold == 7600
earlyExitThreshold == 9000
(* Ids that newClusterID generates start here; seed ids are smaller. *)
FreshBase == 100
(* nnIndex of the source is undefined until a neighbour is found. *)
NoIndex == -1
(* enumerateFaces keeps a face when blur > 10 and score > 0.8 (score in units of 1/100). *)
minBlur == 10
minScore == 80
(* isBadFace: blur < 50, or blur < 200 and blur < 0.85 (blur compared in units of 1/100). *)
badFaceBlur == 50
badFaceBlurUpper == 200
badFaceBlurLower == 85

Workers == {1, 2}

Range(s) == {s[k] : k \in DOMAIN s}

RECURSIVE Flatten(_)
Flatten(ss) == IF ss = <<>> THEN <<>> ELSE Head(ss) \o Flatten(Tail(ss))

IsPrefix(s, t) == Len(s) <= Len(t) /\ SubSeq(t, 1, Len(s)) = s

(* Slice with its first face skipped. *)
SliceFromNext(s, a, b) ==
    LET hi == IF b < Len(s) THEN b ELSE Len(s)
    IN  IF a + 1 >= hi THEN <<>> ELSE SubSeq(s, a + 2, hi)

(* Slice one face short at its end. *)
SliceWithoutLast(s, a, b) ==
    LET hi == IF b - 1 < Len(s) THEN b - 1 ELSE Len(s)
    IN  IF a >= hi THEN <<>> ELSE SubSeq(s, a + 1, hi)

(* faces.slice(a, b) with 0-based a inclusive, b exclusive, clamped. *)
Slice(s, a, b) ==
    LET hi == IF b < Len(s) THEN b ELSE Len(s)
    IN  IF a >= hi THEN <<>> ELSE SubSeq(s, a + 1, hi)

(***************************************************************************)
(* dotProduct(v1, v2) of ./math: sum of the componentwise products.        *)
(***************************************************************************)
RECURSIVE dotProduct(_, _)
dotProduct(v1, v2) ==
    IF v1 = <<>> \/ v2 = <<>> THEN 0
    ELSE Head(v1) * Head(v2) + dotProduct(Tail(v1), Tail(v2))

(***************************************************************************)
(* Inputs.  FaceKinds: the (embedding, isBadFace) pairs a face of the      *)
(* ordered list may have.  With a = (100,0), b = (96,28), c = (80,60),     *)
(* d = (60,80): a.b = 9600, b.c = 9360, c.d = 9600 (early exit),           *)
(* a.c = b.d = 8000 (between the two thresholds), a.d = 6000 (below both). *)
(***************************************************************************)
FaceKinds ==
    { [embedding |-> <<100, 0>>, isBadFace |-> TRUE],
      [embedding |-> <<96, 28>>, isBadFace |-> FALSE],
      [embedding |-> <<80, 60>>, isBadFace |-> FALSE],
      [embedding |-> <<60, 80>>, isBadFace |-> FALSE] }

(***************************************************************************)
(* Three faces A, B, C, none of them a bad face, with A.B = 9500 and       *)
(* A.C = B.C = 7000.                                                       *)
(***************************************************************************)
ExampleKinds ==
    << [embedding |-> <<100, 0, 0>>, isBadFace |-> FALSE],
       [embedding |-> <<95, 35, 0>>, isBadFace |-> FALSE],
       [embedding |-> <<70, 10, 70>>, isBadFace |-> FALSE] >>

(***************************************************************************)
(* Three faces on the boundaries of the thresholds: the second has 8400    *)
(* with the first, a bad face; the third has 7600 with the second and 5000 *)
(* with the first.                                                         *)
(***************************************************************************)
BoundaryKinds ==
    << [embedding |-> <<100, 0>>, isBadFace |-> TRUE],
       [embedding |-> <<84, 50>>, isBadFace |-> FALSE],
       [embedding |-> <<50, 68>>, isBadFace |-> FALSE] >>

Cl(id, fs) == [id |-> id, faces |-> fs]
CG(id, at, as) == [id |-> id, updatedAt |-> at, assigned |-> as]

(***************************************************************************)
(* Saved state a run may start from: the cgroup user entities in storage   *)
(* order and the locally saved clusters.  Cluster ids are unique.  A face  *)
(* id may be in several remote clusters, and in a remote and a local one   *)
(* (the notes at lines 105-109 and 135-137 of clusterFaces); the local     *)
(* clusters, saved from one partition, are disjoint.                       *)
(***************************************************************************)
SeedScenarios ==
    { [cgroups |-> <<>>, local |-> <<>>],
      [cgroups |-> << CG("g1", 1, << Cl(1, <<1, 2>>) >>) >>, local |-> <<>>],
      [cgroups |-> << CG("g1", 1, << Cl(1, <<2, 3>>) >>),
                      CG("g2", 2, << Cl(2, <<3>>) >>) >>,
       local |-> << Cl(3, <<3, 9>>) >>],
      [cgroups |-> << CG("g1", 2, << Cl(1, <<2>>), Cl(2, <<4, 9>>) >>),
                      CG("g2", 2, << Cl(3, <<4>>) >>) >>,
       local |-> <<>>],
      [cgroups |-> <<>>, local |-> << Cl(1, <<1>>), Cl(2, <<3, 9>>) >>],
      [cgroups |-> << CG("g1", 1, << Cl(1, <<1, 2, 3, 4>>) >>) >>,
       local |-> << Cl(2, <<5>>) >>] }

VARIABLES
    faceInput,            \* all eligible faces, newest first (filtered, sorted)
    held,                 \* position of faceInput not yet indexed in run 1 (0: none)
    cgroups,              \* saved cgroup user entities
    localClusters,        \* saved face clusters
    clock,                \* time of the entity store
    idCount,              \* cluster ids generated so far
    runNo,                \* the run in progress (per worker)
    pc,                   \* position of each worker in clusterFaces / reconcileClusters
    faces,                \* clusterFaces: faces
    clusters,             \* state.clusters
    faceIDToClusterID,    \* state.faceIDToClusterID
    faceIDToClusterIndex, \* state.faceIDToClusterIndex
    offset,               \* clusterFaces: offset
    batchFaces,           \* clusterBatchLinear: faces (clustered first)
    nClustered,           \* clusterBatchLinear: clusteredFaces.length
    i,                    \* clusterBatchLinear: i
    progress,             \* the events passed to the caller's onProgress
    changed,              \* reconcileClusters: changedCGroupEntities
    fetched,              \* reconcileClusters: cgroupEntities
    reconNo,              \* calls of reconcileClusters with the partition of the run
    updateCalls,          \* calls of updateOrCreateUserEntities
    saveCalls,            \* calls of saveFaceClusters
    prevRun,              \* state of the previous completed run (history)
    atBootstrap,          \* the state each run entered its batch loop with (history)
    localFiles            \* ids of the files given to clusterFaces as localFiles

vars == << faceInput, held, cgroups, localClusters, clock, idCount, runNo, pc,
           faces, clusters, faceIDToClusterID, faceIDToClusterIndex, offset,
           batchFaces, nClustered, i, progress, changed, fetched, reconNo,
           updateCalls, saveCalls, prevRun, atBootstrap, localFiles >>

inputVars == << faceInput, held, localFiles >>
storeVars == << cgroups, localClusters, clock, updateCalls, saveCalls >>
stateVars == << clusters, faceIDToClusterID, faceIDToClusterIndex >>
batchVars == << offset, batchFaces, nClustered, i >>
reconVars == << changed, fetched, reconNo >>

EmptyMap == [x \in {} |-> 0]

Upd(f, r, v) == [f EXCEPT ![r] = v]

(* The state written for every run in progress, as if it were one object. *)
SetSharedState(f, r, v) == [s \in DOMAIN f |-> v]

(* const state = {...} of one clusterFaces call: a write reaches the state of run r alone. *)
SetState(f, r, v) == [f EXCEPT ![r] = v]

(***************************************************************************)
(* The faces of the face indexes, as indexed: id, embedding, blur, score   *)
(* and whether the detection is sideways.  LowQualityFaces are two faces   *)
(* of the library on the boundaries of the filter of enumerateFaces: blur  *)
(* exactly 10, score exactly 0.8.                                          *)
(***************************************************************************)
LowQualityFaces ==
    << [faceID |-> 9, embedding |-> <<96, 28>>, blur |-> 10, score |-> 90,
        sideways |-> FALSE],
       [faceID |-> 8, embedding |-> <<80, 60>>, blur |-> 60, score |-> 80,
        sideways |-> FALSE] >>

(* The indexed face that an eligible face of faceInput comes from. *)
IndexedFace(f) ==
    [faceID |-> f.faceID, embedding |-> f.embedding,
     blur |-> IF f.isBadFace THEN 40 ELSE 60, score |-> 90, sideways |-> FALSE]

(***************************************************************************)
(* faceIndexes at run n, flattened, in the order of the file creation      *)
(* times.  In run 1 the face at position held is not indexed yet; later    *)
(* runs see all the faces (the earlier ones plus the additional one).      *)
(***************************************************************************)
faceIndexes(n) ==
    LET all == [k \in DOMAIN faceInput |-> IndexedFace(faceInput[k])]
        indexed == IF n = 1 /\ held # 0
                   THEN SubSeq(all, 1, held - 1) \o SubSeq(all, held + 1, Len(all))
                   ELSE all
    IN  <<LowQualityFaces[1]>> \o indexed \o <<LowQualityFaces[2]>>

(* const isBadFace = (face) => face.blur < 50 || (face.blur < 200 && face.blur < 0.85) || isSidewaysFace(face) *)
isBadFace(face) ==
    \/ face.blur < badFaceBlur
    \/ (face.blur < badFaceBlurUpper /\ face.blur * 100 < badFaceBlurLower)
    \/ face.sideways

(* The filter with the boundary values let through. *)
IsEligibleFromBoundary(face) == face.blur >= minBlur /\ face.score >= minScore

(* if (face.blur > 10 && face.score > 0.8) *)
IsEligible(face) == face.blur > minBlur /\ face.score > minScore

(* enumerateFaces: the eligible faces, each with its embedding and isBadFace. *)
enumerateFaces(faceIndices) ==
    LET kept == SelectSeq(faceIndices, IsEligible)
    IN  [k \in DOMAIN kept |->
            [faceID |-> kept[k].faceID, embedding |-> kept[k].embedding,
             isBadFace |-> isBadFace(kept[k])]]

(***************************************************************************)
(* clusterFaces, lines 86-90: the faces of the run, filtered; the indexes  *)
(* are given in the order sortFacesNewestOnesFirst puts them in.           *)
(***************************************************************************)
RunFaces(n) == enumerateFaces(faceIndexes(n))

(* fileIDFromFaceID: the face with id k is a face of the file with id k. *)
fileIDFromFaceID(faceID) == faceID

(* Every face taken to have a file among the local files. *)
HasLocalFileAlways(files, faceID) == TRUE

(* localFileByID.get(fileIDFromFaceID(faceID)) is defined. *)
HasLocalFile(files, faceID) == fileIDFromFaceID(faceID) \in files

(* Lines 208-214: every ensure of the fileForFaceID map passes. *)
CanSort(fs, files) == \A k \in DOMAIN fs : HasLocalFile(files, fs[k].faceID)

(***************************************************************************)
(* sortFacesNewestOnesFirst: descending creation time of the file of each  *)
(* face.  The file of face k was created before that of face k - 1, so     *)
(* the order by increasing face id is the sorted one.                      *)
(***************************************************************************)
sortFacesNewestOnesFirst(fs) ==
    LET Newer(k) == {m \in DOMAIN fs : fs[m].faceID < fs[k].faceID}
    IN  [p \in DOMAIN fs |->
            fs[CHOOSE k \in DOMAIN fs : Cardinality(Newer(k)) = p - 1]]

(***************************************************************************)
(* cgroupUserEntities.sort((a, b) => b.updatedAt - a.updatedAt): newest    *)
(* first; Array.prototype.sort is stable, so entities with equal updatedAt *)
(* keep their storage order.                                               *)
(***************************************************************************)
RECURSIVE InsertByUpdatedAt(_, _)
InsertByUpdatedAt(sorted, g) ==
    IF sorted = <<>> THEN <<g>>
    ELSE IF Head(sorted).updatedAt >= g.updatedAt
         THEN <<Head(sorted)>> \o InsertByUpdatedAt(Tail(sorted), g)
         ELSE <<g>> \o sorted

RECURSIVE sortedCGroupUserEntities(_)
sortedCGroupUserEntities(gs) ==
    IF gs = <<>> THEN <<>>
    ELSE InsertByUpdatedAt(sortedCGroupUserEntities(SubSeq(gs, 1, Len(gs) - 1)),
                           gs[Len(gs)])

(* sortedCGroupUserEntities.map((cg) => cg.data.assigned).flat() *)
RemoteClusters(gs) ==
    LET sorted == sortedCGroupUserEntities(gs)
    IN  Flatten([k \in DOMAIN sorted |-> sorted[k].assigned])

(* The check left out: every occurrence is indexed, the last one stays. *)
AlwaysIndexed(map, faceID) == TRUE

(* if (!faceIDToClusterID.has(faceID)): only then is the face indexed. *)
NotYetIndexed(map, faceID) == faceID \notin DOMAIN map

(***************************************************************************)
(* The loop of lines 139-146 from cluster k (1-based here, index k - 1 in  *)
(* the source) and face n of it on; m holds the two maps.                  *)
(***************************************************************************)
RECURSIVE IndexFaces(_, _, _, _)
IndexFaces(m, cs, k, n) ==
    IF k > Len(cs) THEN m
    ELSE IF n > Len(cs[k].faces) THEN IndexFaces(m, cs, k + 1, 1)
    ELSE LET faceID == cs[k].faces[n]
         IN  IF NotYetIndexed(m.id, faceID)
             THEN IndexFaces([id |-> (faceID :> cs[k].id) @@ m.id,
                              index |-> (faceID :> (k - 1)) @@ m.index],
                             cs, k, n + 1)
             ELSE IndexFaces(m, cs, k, n + 1)

(* The maps with the cluster's position counted from 1. *)
BuildMapsOneBased(cs) ==
    LET m == IndexFaces([id |-> EmptyMap, index |-> EmptyMap], cs, 1, 1)
    IN  [id |-> m.id, index |-> [faceID \in DOMAIN m.index |-> m.index[faceID] + 1]]

BuildMaps(cs) == IndexFaces([id |-> EmptyMap, index |-> EmptyMap], cs, 1, 1)

(* The loop left after its first batch. *)
LoopHeaderOnce(off, total) == IF off < total /\ off = 0 THEN "batch" ELSE "done"

(* for (let offset = 0; offset < total; ...): where the loop goes next. *)
LoopHeader(off, total) == IF off < total THEN "batch" ELSE "done"

(***************************************************************************)
(* clusterFaces up to the read of the saved cgroups (lines 83-122).        *)
(***************************************************************************)
FetchCGroups(r) ==
    /\ pc[r] = "start"
    /\ IF CanSort(RunFaces(runNo[r]), localFiles)
       THEN /\ faces' = Upd(faces, r, sortFacesNewestOnesFirst(RunFaces(runNo[r])))
            /\ clusters' = Upd(clusters, r, RemoteClusters(cgroups))
            /\ pc' = Upd(pc, r, "fetched")
       ELSE /\ pc' = Upd(pc, r, "unresolved")
            /\ UNCHANGED << faces, clusters >>
    /\ UNCHANGED << inputVars, storeVars, idCount, runNo, faceIDToClusterID,
                    faceIDToClusterIndex, batchVars, progress, reconVars, prevRun, atBootstrap >>

(***************************************************************************)
(* clusterFaces, lines 125-161: add the local clusters, fill the reverse   *)
(* maps, enter the batch loop.                                             *)
(***************************************************************************)
IndexSavedClusters(r) ==
    /\ pc[r] = "fetched"
    /\ LET cs == clusters[r] \o localClusters
           m == BuildMaps(cs)
       IN  /\ clusters' = Upd(clusters, r, cs)
           /\ faceIDToClusterID' = Upd(faceIDToClusterID, r, m.id)
           /\ faceIDToClusterIndex' = Upd(faceIDToClusterIndex, r, m.index)
    /\ offset' = Upd(offset, r, 0)
    /\ pc' = Upd(pc, r, LoopHeader(0, Len(faces[r])))
    /\ atBootstrap' = Upd(atBootstrap, r,
                      [clusters |-> clusters[r] \o localClusters,
                       id |-> BuildMaps(clusters[r] \o localClusters).id,
                       index |-> BuildMaps(clusters[r] \o localClusters).index,
                       generated |-> idCount])
    /\ UNCHANGED << inputVars, storeVars, idCount, runNo, faces, batchFaces,
                    nClustered, i, progress, reconVars, prevRun >>

(* The reverse maps taken as one state shared by all the runs in progress. *)
HasClusterInAnyRun(r, faceID) ==
    \E w \in Workers : faceID \in DOMAIN faceIDToClusterID[w]

(* state.faceIDToClusterID.has(faceID), on the state of the run of worker r. *)
HasCluster(r, faceID) == faceID \in DOMAIN faceIDToClusterID[r]

(* The event of clusterBatchLinear handed to the caller as it is: counts of the batch. *)
ReportedOfBatch(r, completed) ==
    Append(progress[r],
           [completed |-> completed,
            total |-> Len(Slice(faces[r], offset[r], offset[r] + batchSize))])

(* onProgress of clusterFaces: ({ completed }) => onProgress({ completed: offset + completed, total }) *)
Reported(r, completed) ==
    Append(progress[r], [completed |-> offset[r] + completed, total |-> Len(faces[r])])

(***************************************************************************)
(* clusterBatchLinear, lines 254-273: split the batch, exit early when     *)
(* nothing is unclustered, else put the clustered faces first.             *)
(***************************************************************************)
BeginBatch(r) ==
    /\ pc[r] = "batch"
    /\ LET batch == Slice(faces[r], offset[r], offset[r] + batchSize)
           IsClustered(face) == HasCluster(r, face.faceID)
           IsUnclustered(face) == ~IsClustered(face)
           clusteredFaces == SelectSeq(batch, IsClustered)
           unclusteredFaces == SelectSeq(batch, IsUnclustered)
       IN  IF unclusteredFaces = <<>>
           THEN /\ progress' = Upd(progress, r, Reported(r, Len(batch)))
                /\ offset' = Upd(offset, r, offset[r] + offsetIncrement)
                /\ pc' = Upd(pc, r, LoopHeader(offset[r] + offsetIncrement, Len(faces[r])))
                /\ UNCHANGED << batchFaces, nClustered, i >>
           ELSE /\ batchFaces' = Upd(batchFaces, r, clusteredFaces \o unclusteredFaces)
                /\ nClustered' = Upd(nClustered, r, Len(clusteredFaces))
                /\ i' = Upd(i, r, 0)
                /\ pc' = Upd(pc, r, "loop")
                /\ UNCHANGED << progress, offset >>
    /\ UNCHANGED << inputVars, storeVars, idCount, runNo, faces, stateVars,
                    reconVars, prevRun, atBootstrap >>

(* The threshold of an ordinary face for every candidate. *)
ThresholdIgnoringBadFace(fj) == goodFaceThreshold

(* const threshold = fj.isBadFace ? 0.84 : 0.76 *)
Threshold(fj) == IF fj.isBadFace THEN badFaceThreshold ELSE goodFaceThreshold

(* The comparison with the best so far alone, without the threshold. *)
IsNearerAtAll(csim, nnCosineSimilarity, fj) == csim > nnCosineSimilarity

(* The comparison with the threshold strict, as the one with the best so far. *)
IsNearerAboveThreshold(csim, nnCosineSimilarity, fj) ==
    csim > nnCosineSimilarity /\ csim > Threshold(fj)

(* if (csim > nnCosineSimilarity && csim >= threshold) *)
IsNearer(csim, nnCosineSimilarity, fj) ==
    csim > nnCosineSimilarity /\ csim >= Threshold(fj)

(* The scan without its early exit. *)
NeverEarlyExit(csim) == FALSE

(* if (csim >= 0.9) break *)
IsEarlyExit(csim) == csim >= earlyExitThreshold

(***************************************************************************)
(* The backward scan of lines 287-307 from position j down to 0, with the  *)
(* nearest neighbour found so far.                                         *)
(***************************************************************************)
RECURSIVE ScanBack(_, _, _, _, _)
ScanBack(fs, fi, j, nnIndex, nnCosineSimilarity) ==
    IF j < 0
    THEN [nnIndex |-> nnIndex, nnCosineSimilarity |-> nnCosineSimilarity]
    ELSE LET fj == fs[j + 1]
             csim == dotProduct(fi.embedding, fj.embedding)
         IN  IF IsNearer(csim, nnCosineSimilarity, fj)
             THEN IF IsEarlyExit(csim)
                  THEN [nnIndex |-> j, nnCosineSimilarity |-> csim]
                  ELSE ScanBack(fs, fi, j - 1, j, csim)
             ELSE ScanBack(fs, fi, j - 1, nnIndex, nnCosineSimilarity)

(* The most similar accepted candidate of the whole range, the nearest of them on a tie. *)
MostSimilarNeighbour(fs, pos) ==
    LET sim(j) == dotProduct(fs[pos + 1].embedding, fs[j + 1].embedding)
        accepted == {j \in 0 .. pos - 1 : IsNearer(sim(j), 0, fs[j + 1])}
    IN  IF accepted = {}
        THEN [nnIndex |-> NoIndex, nnCosineSimilarity |-> 0]
        ELSE LET best == CHOOSE j \in accepted :
                             \A k \in accepted :
                                 sim(k) < sim(j) \/ (sim(k) = sim(j) /\ k <= j)
             IN  [nnIndex |-> best, nnCosineSimilarity |-> sim(best)]

(* The scan begun at the last face of the batch, not at the one before position pos. *)
NearestOfWholeBatch(fs, pos) == ScanBack(fs, fs[pos + 1], Len(fs) - 1, NoIndex, 0)

(* let nnIndex; let nnCosineSimilarity = 0; for (let j = i - 1; j >= 0; j--) *)
NearestNeighbour(fs, pos) == ScanBack(fs, fs[pos + 1], pos - 1, NoIndex, 0)

(* A report at every position. *)
IsEveryPosition(pos) == TRUE

(* if (i % 100 == 0) *)
IsReportPosition(pos) == pos % progressEvery = 0

(***************************************************************************)
(* clusterBatchLinear, lines 277-281: report progress, then wait(0).       *)
(***************************************************************************)
ReportProgress(r) ==
    /\ pc[r] = "loop"
    /\ i[r] < Len(batchFaces[r])
    /\ IsReportPosition(i[r])
    /\ progress' = Upd(progress, r, Reported(r, i[r]))
    /\ pc' = Upd(pc, r, "yield")
    /\ UNCHANGED << inputVars, storeVars, idCount, runNo, faces, stateVars,
                    batchVars, reconVars, prevRun, atBootstrap >>

(* The host runs the timer of wait(0): the loop body goes on. *)
Resume(r) ==
    /\ pc[r] = "yield"
    /\ pc' = Upd(pc, r, "proc")
    /\ UNCHANGED << inputVars, storeVars, idCount, runNo, faces, stateVars,
                    batchVars, progress, reconVars, prevRun, atBootstrap >>

(* The loop body reached only where no yield comes first: never after a resume. *)
AtFaceWithoutYield(r) ==
    /\ pc[r] = "loop"
    /\ i[r] < Len(batchFaces[r])
    /\ ~IsReportPosition(i[r])

(* The loop body from line 283 on is about to run for position i. *)
AtFace(r) ==
    \/ pc[r] = "proc"
    \/ /\ pc[r] = "loop"
       /\ i[r] < Len(batchFaces[r])
       /\ ~IsReportPosition(i[r])

(* The test that lets every face through to the scan. *)
NeverSkipsFace(map, faceID) == FALSE

(* Line 284: state.faceIDToClusterID.has(fi.faceID), the face is passed over. *)
SkipsFace(map, faceID) == faceID \in DOMAIN map

(* if (state.faceIDToClusterID.has(fi.faceID)) continue *)
SkipClustered(r) ==
    /\ AtFace(r)
    /\ SkipsFace(faceIDToClusterID[r], batchFaces[r][i[r] + 1].faceID)
    /\ i' = Upd(i, r, i[r] + 1)
    /\ pc' = Upd(pc, r, "loop")
    /\ UNCHANGED << inputVars, storeVars, idCount, runNo, faces, stateVars,
                    offset, batchFaces, nClustered, progress, reconVars, prevRun, atBootstrap >>

(* The face put at the front of the cluster's list. *)
UnshiftFace(cs, clusterIndex, faceID) ==
    [cs EXCEPT ![clusterIndex + 1].faces = <<faceID>> \o @]

(* The face pushed to the cluster after the neighbour's (the index taken as counted from 1). *)
PushFaceToNext(cs, clusterIndex, faceID) ==
    [cs EXCEPT ![((clusterIndex + 1) % Len(cs)) + 1].faces = Append(@, faceID)]

(* The face written over the last face of the cluster's list. *)
ReplaceLastFace(cs, clusterIndex, faceID) ==
    [cs EXCEPT ![clusterIndex + 1].faces = SubSeq(@, 1, Len(@) - 1) \o <<faceID>>]

(* nnCluster.faces.push(fi.faceID) *)
PushFace(cs, clusterIndex, faceID) ==
    [cs EXCEPT ![clusterIndex + 1].faces = Append(@, faceID)]

(* set() that keeps the entries of the other faces only when the map was empty. *)
MapSetAlone(map, key, value) == (key :> value)

(* state.faceIDToClusterID.set / state.faceIDToClusterIndex.set *)
MapSet(map, key, value) == (key :> value) @@ map

(***************************************************************************)
(* Lines 309-319: a neighbour was found, the face joins its cluster.  The  *)
(* two ensure() throw when the neighbour has no recorded cluster index or  *)
(* the index is outside state.clusters.                                    *)
(***************************************************************************)
JoinNeighbour(r) ==
    /\ AtFace(r)
    /\ LET fi == batchFaces[r][i[r] + 1]
           nn == NearestNeighbour(batchFaces[r], i[r])
       IN  /\ ~SkipsFace(faceIDToClusterID[r], fi.faceID)
           /\ nn.nnIndex # NoIndex
           /\ LET nnFace == batchFaces[r][nn.nnIndex + 1]
              IN  IF \/ nnFace.faceID \notin DOMAIN faceIDToClusterIndex[r]
                     \/ faceIDToClusterIndex[r][nnFace.faceID] >= Len(clusters[r])
                  THEN /\ pc' = Upd(pc, r, "failed")
                       /\ UNCHANGED << stateVars, i >>
                  ELSE LET nnClusterIndex == faceIDToClusterIndex[r][nnFace.faceID]
                           nnCluster == clusters[r][nnClusterIndex + 1]
                       IN  /\ faceIDToClusterID' =
                                 SetState(faceIDToClusterID, r,
                                     MapSet(faceIDToClusterID[r], fi.faceID, nnCluster.id))
                           /\ faceIDToClusterIndex' =
                                 SetState(faceIDToClusterIndex, r,
                                     MapSet(faceIDToClusterIndex[r], fi.faceID, nnClusterIndex))
                           /\ clusters' =
                                 SetState(clusters, r,
                                     PushFace(clusters[r], nnClusterIndex, fi.faceID))
                           /\ i' = Upd(i, r, i[r] + 1)
                           /\ pc' = Upd(pc, r, "loop")
    /\ UNCHANGED << inputVars, storeVars, idCount, runNo, faces, offset,
                    batchFaces, nClustered, progress, reconVars, prevRun, atBootstrap >>

(***************************************************************************)
(* newClusterID(): newNonSecureID("cluster_"), a unique token; the n-th    *)
(* generated id is FreshBase + n.                                          *)
(***************************************************************************)
newClusterID(n) == FreshBase + n

(* The cluster put at the front of the list. *)
UnshiftCluster(cs, cluster) == <<cluster>> \o cs

(* state.clusters.push(cluster) *)
PushCluster(cs, cluster) == Append(cs, cluster)

(* Lines 320-329: no neighbour within the threshold, a new cluster. *)
CreateCluster(r) ==
    /\ AtFace(r)
    /\ LET fi == batchFaces[r][i[r] + 1]
           nn == NearestNeighbour(batchFaces[r], i[r])
           clusterID == newClusterID(idCount)
           clusterIndex == Len(clusters[r])
           cluster == [id |-> clusterID, faces |-> <<fi.faceID>>]
       IN  /\ ~SkipsFace(faceIDToClusterID[r], fi.faceID)
           /\ nn.nnIndex = NoIndex
           /\ faceIDToClusterID' =
                 SetState(faceIDToClusterID, r,
                     MapSet(faceIDToClusterID[r], fi.faceID, cluster.id))
           /\ faceIDToClusterIndex' =
                 SetState(faceIDToClusterIndex, r,
                     MapSet(faceIDToClusterIndex[r], fi.faceID, clusterIndex))
           /\ clusters' = SetState(clusters, r, PushCluster(clusters[r], cluster))
    /\ idCount' = idCount + 1
    /\ i' = Upd(i, r, i[r] + 1)
    /\ pc' = Upd(pc, r, "loop")
    /\ UNCHANGED << inputVars, storeVars, runNo, faces, offset, batchFaces,
                    nClustered, progress, reconVars, prevRun, atBootstrap >>

(***************************************************************************)
(* The for loop of lines 276-330 as a function: the state st (clusters,    *)
(* id map, index map, ids generated) after the positions pos, pos + 1, ... *)
(* of the working order fs.  A failing ensure() ends the loop.             *)
(***************************************************************************)
RECURSIVE PerFaceLoop(_, _, _)
PerFaceLoop(st, fs, pos) ==
    IF pos >= Len(fs) THEN st
    ELSE LET fi == fs[pos + 1]
             nn == NearestNeighbour(fs, pos)
             Body(v) ==
                 IF SkipsFace(v.id, fi.faceID) THEN PerFaceLoop(v, fs, pos + 1)
                 ELSE IF nn.nnIndex # NoIndex
                 THEN LET nnFace == fs[nn.nnIndex + 1]
                      IN  IF \/ nnFace.faceID \notin DOMAIN v.index
                             \/ v.index[nnFace.faceID] >= Len(v.clusters)
                          THEN v
                          ELSE LET nnClusterIndex == v.index[nnFace.faceID]
                                   nnCluster == v.clusters[nnClusterIndex + 1]
                               IN  PerFaceLoop(
                                       [v EXCEPT
                                           !.id = MapSet(@, fi.faceID, nnCluster.id),
                                           !.index = MapSet(@, fi.faceID, nnClusterIndex),
                                           !.clusters = PushFace(@, nnClusterIndex, fi.faceID)],
                                       fs, pos + 1)
                 ELSE LET cluster == [id |-> newClusterID(v.generated),
                                      faces |-> <<fi.faceID>>]
                      IN  PerFaceLoop(
                              [v EXCEPT
                                  !.id = MapSet(@, fi.faceID, cluster.id),
                                  !.index = MapSet(@, fi.faceID, Len(v.clusters)),
                                  !.clusters = PushCluster(@, cluster),
                                  !.generated = @ + 1],
                              fs, pos + 1)
         IN  CHOOSE out \in {Body(v) : v \in {st}} : TRUE

(* The for loop of clusterBatchLinear is over; clusterFaces: offset += offsetIncrement. *)
EndBatch(r) ==
    /\ pc[r] = "loop"
    /\ i[r] = Len(batchFaces[r])
    /\ offset' = Upd(offset, r, offset[r] + offsetIncrement)
    /\ pc' = Upd(pc, r, LoopHeader(offset[r] + offsetIncrement, Len(faces[r])))
    /\ UNCHANGED << inputVars, storeVars, idCount, runNo, faces, stateVars,
                    batchFaces, nClustered, i, progress, reconVars, prevRun, atBootstrap >>

(***************************************************************************)
(* reconcileClusters.  clusterByID = new Map(clusters.map((c) => [c.id,    *)
(* c])): the last cluster with a given id is the one the map keeps.        *)
(***************************************************************************)
HasClusterID(cs, id) == \E k \in DOMAIN cs : cs[k].id = id

clusterByID(cs, id) ==
    cs[CHOOSE k \in DOMAIN cs :
           /\ cs[k].id = id
           /\ \A m \in DOMAIN cs : cs[m].id = id => m <= k]

(* The always-changed cluster: every assigned cluster counts as grown. *)
HasGrownAlways(oldCluster, newCluster) == TRUE

(* if (oldCluster.faces.length != newCluster.faces.length) *)
HasGrown(oldCluster, newCluster) == Len(oldCluster.faces) # Len(newCluster.faces)

IsChangedCGroup(cgroupEntity, cs) ==
    \E k \in DOMAIN cgroupEntity.assigned :
        HasGrown(cgroupEntity.assigned[k], clusterByID(cs, cgroupEntity.assigned[k].id))

(* The cgroup as it was read, its assigned clusters not replaced. *)
WithRecordedClusters(cgroupEntity, cs) == cgroupEntity

(* The cgroup written with its grown clusters only. *)
WithGrownClusters(cgroupEntity, cs) ==
    LET IsGrown(c) ==
            \E k \in DOMAIN cgroupEntity.assigned :
                /\ cgroupEntity.assigned[k].id = c.id
                /\ HasGrown(cgroupEntity.assigned[k], c)
    IN  [cgroupEntity EXCEPT
            !.assigned = SelectSeq([k \in DOMAIN cgroupEntity.assigned |->
                                       clusterByID(cs, cgroupEntity.assigned[k].id)],
                                   IsGrown)]

(* { ...cgroupEntity, data: { ...data, assigned: assigned.map(({ id }) => ensure(clusterByID.get(id))) } } *)
WithCurrentClusters(cgroupEntity, cs) ==
    [cgroupEntity EXCEPT
        !.assigned = [k \in DOMAIN cgroupEntity.assigned |->
                         clusterByID(cs, cgroupEntity.assigned[k].id)]]

(* The map without its filter: every cgroup, changed or not, with its current clusters. *)
AllCGroupEntities(cgroupEntities, cs) ==
    [k \in DOMAIN cgroupEntities |-> WithCurrentClusters(cgroupEntities[k], cs)]

changedCGroupEntities(cgroupEntities, cs) ==
    LET IsChanged(g) == IsChangedCGroup(g, cs)
        changedOnes == SelectSeq(cgroupEntities, IsChanged)
    IN  [k \in DOMAIN changedOnes |-> WithCurrentClusters(changedOnes[k], cs)]

(* ensure(clusterByID.get(...)) throws for an assigned cluster that is not in clusters. *)
MissingAssigned(cgroupEntities, cs) ==
    \E g \in DOMAIN cgroupEntities :
        \E k \in DOMAIN cgroupEntities[g].assigned :
            ~HasClusterID(cs, cgroupEntities[g].assigned[k].id)

(* The ids of the assigned clusters of the first cgroup only. *)
isRemoteClusterIDOfFirst(cgroupEntities) ==
    IF cgroupEntities = <<>> THEN {}
    ELSE { cgroupEntities[1].assigned[k].id : k \in DOMAIN cgroupEntities[1].assigned }

(* Lines 385-389. *)
isRemoteClusterID(cgroupEntities) ==
    UNION { { cgroupEntities[g].assigned[k].id :
                  k \in DOMAIN cgroupEntities[g].assigned } :
            g \in DOMAIN cgroupEntities }

(* The filter without its negation: the clusters that are in some cgroup. *)
RemoteOnlyClusters(cs, cgroupEntities) ==
    LET IsRemote(c) == c.id \in isRemoteClusterID(cgroupEntities)
    IN  SelectSeq(cs, IsRemote)

(* clusters.filter(({ id }) => !isRemoteClusterID.has(id)) *)
LocalOnlyClusters(cs, cgroupEntities) ==
    LET IsLocal(c) == c.id \notin isRemoteClusterID(cgroupEntities)
    IN  SelectSeq(cs, IsLocal)

(***************************************************************************)
(* updateOrCreateUserEntities of ../user-entity: the saved entities with   *)
(* the given ones written over those of the same id, their updatedAt set   *)
(* to the time of the write.                                               *)
(***************************************************************************)
updateOrCreateUserEntities(saved, entities, now) ==
    [k \in DOMAIN saved |->
        IF \E m \in DOMAIN entities : entities[m].id = saved[k].id
        THEN [entities[CHOOSE m \in DOMAIN entities : entities[m].id = saved[k].id]
                  EXCEPT !.updatedAt = now]
        ELSE saved[k]]

(***************************************************************************)
(* The diff with the lookups made optional: a cgroup with an assigned      *)
(* cluster that is not in clusters is passed over.                         *)
(***************************************************************************)
ReconcileDiffLenient(r) ==
    /\ pc[r] \in {"done", "redo"}
    /\ reconNo' = Upd(reconNo, r, reconNo[r] + 1)
    /\ fetched' = Upd(fetched, r, cgroups)
    /\ LET IsWhole(g) == ~MissingAssigned(<<g>>, clusters[r])
           whole == SelectSeq(cgroups, IsWhole)
       IN  /\ changed' = Upd(changed, r, changedCGroupEntities(whole, clusters[r]))
           /\ pc' = Upd(pc, r, IF changedCGroupEntities(whole, clusters[r]) # <<>>
                                THEN "update" ELSE "save")
    /\ UNCHANGED << inputVars, storeVars, idCount, runNo, faces, stateVars,
                    batchVars, progress, prevRun, atBootstrap >>

(* reconcileClusters, lines 344-372, called with the clusters the run returned. *)
ReconcileDiff(r) ==
    /\ pc[r] \in {"done", "redo"}
    /\ reconNo' = Upd(reconNo, r, reconNo[r] + 1)
    /\ fetched' = Upd(fetched, r, cgroups)
    /\ IF MissingAssigned(cgroups, clusters[r])
       THEN /\ pc' = Upd(pc, r, "failed")
            /\ UNCHANGED changed
       ELSE /\ changed' = Upd(changed, r, changedCGroupEntities(cgroups, clusters[r]))
            /\ pc' = Upd(pc, r, IF changedCGroupEntities(cgroups, clusters[r]) # <<>>
                                 THEN "update" ELSE "save")
    /\ UNCHANGED << inputVars, storeVars, idCount, runNo, faces, stateVars,
                    batchVars, progress, prevRun, atBootstrap >>

(* Lines 375-382: one call for all the changed cgroups. *)
ReconcileUpdate(r) ==
    /\ pc[r] = "update"
    /\ updateCalls' = Append(updateCalls, changed[r])
    /\ clock' = clock + 1
    /\ cgroups' = updateOrCreateUserEntities(cgroups, changed[r], clock + 1)
    /\ pc' = Upd(pc, r, "save")
    /\ UNCHANGED << inputVars, localClusters, saveCalls, idCount, runNo, faces,
                    stateVars, batchVars, progress, reconVars, prevRun, atBootstrap >>

(* The save left out when no cluster is local-only. *)
ReconcileSaveIfAny(r) ==
    /\ pc[r] = "save"
    /\ IF LocalOnlyClusters(clusters[r], fetched[r]) = <<>>
       THEN UNCHANGED << localClusters, saveCalls >>
       ELSE /\ localClusters' = LocalOnlyClusters(clusters[r], fetched[r])
            /\ saveCalls' = Append(saveCalls, LocalOnlyClusters(clusters[r], fetched[r]))
    /\ pc' = Upd(pc, r, "reconciled")
    /\ UNCHANGED << inputVars, cgroups, clock, updateCalls, idCount, runNo, faces,
                    stateVars, batchVars, progress, reconVars, prevRun, atBootstrap >>

(* Lines 384-394: save the clusters that are in no cgroup. *)
ReconcileSave(r) ==
    /\ pc[r] = "save"
    /\ localClusters' = LocalOnlyClusters(clusters[r], fetched[r])
    /\ saveCalls' = Append(saveCalls, LocalOnlyClusters(clusters[r], fetched[r]))
    /\ pc' = Upd(pc, r, "reconciled")
    /\ UNCHANGED << inputVars, cgroups, clock, updateCalls, idCount, runNo, faces,
                    stateVars, batchVars, progress, reconVars, prevRun, atBootstrap >>

(***************************************************************************)
(* await updateOrCreateUserEntities(...) rejects (the request to the       *)
(* entity store fails): nothing catches it, reconcileClusters rejects and  *)
(* the lines after 380 do not run.                                         *)
(***************************************************************************)
ReconcileUpdateFails(r) ==
    /\ pc[r] = "update"
    /\ pc' = Upd(pc, r, "updateFailed")
    /\ UNCHANGED << inputVars, storeVars, idCount, runNo, faces, stateVars,
                    batchVars, progress, reconVars, prevRun, atBootstrap >>

(* await saveFaceClusters(...) rejects: reconcileClusters rejects, nothing is saved. *)
ReconcileSaveFails(r) ==
    /\ pc[r] = "save"
    /\ pc' = Upd(pc, r, "saveFailed")
    /\ UNCHANGED << inputVars, storeVars, idCount, runNo, faces, stateVars,
                    batchVars, progress, reconVars, prevRun, atBootstrap >>

(***************************************************************************)
(* The next run of the worker, on the faces indexed by now, seeded from    *)
(* what the reconciliation of the previous run persisted.                  *)
(***************************************************************************)
NextRun(r) ==
    /\ pc[r] = "reconciled"
    /\ runNo[r] < MaxRuns
    /\ prevRun' = [clusters |-> clusters[r], id |-> faceIDToClusterID[r],
                   faces |-> faces[r]]
    /\ runNo' = Upd(runNo, r, runNo[r] + 1)
    /\ pc' = Upd(pc, r, "start")
    /\ faces' = Upd(faces, r, <<>>)
    /\ clusters' = Upd(clusters, r, <<>>)
    /\ faceIDToClusterID' = Upd(faceIDToClusterID, r, EmptyMap)
    /\ faceIDToClusterIndex' = Upd(faceIDToClusterIndex, r, EmptyMap)
    /\ offset' = Upd(offset, r, 0)
    /\ batchFaces' = Upd(batchFaces, r, <<>>)
    /\ nClustered' = Upd(nClustered, r, 0)
    /\ i' = Upd(i, r, 0)
    /\ progress' = Upd(progress, r, <<>>)
    /\ changed' = Upd(changed, r, <<>>)
    /\ fetched' = Upd(fetched, r, <<>>)
    /\ reconNo' = Upd(reconNo, r, 0)
    /\ UNCHANGED << inputVars, storeVars, idCount, atBootstrap >>

(***************************************************************************)
(* The host calls reconcileClusters once more with the partition it holds, *)
(* the one of the last run.                                                *)
(***************************************************************************)
ReconcileAgain(r) ==
    /\ pc[r] = "reconciled"
    /\ runNo[r] = MaxRuns
    /\ reconNo[r] < MaxReconciles
    /\ pc' = Upd(pc, r, "redo")
    /\ UNCHANGED << inputVars, storeVars, idCount, runNo, faces, stateVars,
                    batchVars, progress, reconVars, prevRun, atBootstrap >>

(***************************************************************************)
(* Initial states: an ordered list of at most MaxFaces eligible faces, a   *)
(* saved state, and the face (if any) that only the second run sees.       *)
(***************************************************************************)
HeldChoices(n) == {0, 1, n} \cap (0 .. n)

(* The files of all the indexed faces, the two low-quality ones included. *)
AllLocalFiles == (1 .. MaxFaces) \cup {8, 9}

InitAll(n, kinds, h, seed, files) ==
    /\ faceInput = [k \in 1 .. n |->
                       [faceID |-> k, embedding |-> kinds[k].embedding,
                        isBadFace |-> kinds[k].isBadFace]]
    /\ held = h
    /\ cgroups = seed.cgroups
    /\ localClusters = seed.local
    /\ clock = 2
    /\ idCount = 0
    /\ runNo = [r \in Workers |-> 1]
    /\ pc = [r \in Workers |-> "start"]
    /\ faces = [r \in Workers |-> <<>>]
    /\ clusters = [r \in Workers |-> <<>>]
    /\ faceIDToClusterID = [r \in Workers |-> EmptyMap]
    /\ faceIDToClusterIndex = [r \in Workers |-> EmptyMap]
    /\ offset = [r \in Workers |-> 0]
    /\ batchFaces = [r \in Workers |-> <<>>]
    /\ nClustered = [r \in Workers |-> 0]
    /\ i = [r \in Workers |-> 0]
    /\ progress = [r \in Workers |-> <<>>]
    /\ changed = [r \in Workers |-> <<>>]
    /\ fetched = [r \in Workers |-> <<>>]
    /\ reconNo = [r \in Workers |-> 0]
    /\ updateCalls = <<>>
    /\ saveCalls = <<>>
    /\ prevRun = [clusters |-> <<>>, id |-> EmptyMap, faces |-> <<>>]
    /\ atBootstrap = [r \in Workers |->
                    [clusters |-> <<>>, id |-> EmptyMap, index |-> EmptyMap,
                     generated |-> 0]]
    /\ localFiles = files

InitWith(n, kinds, h, seed) == InitAll(n, kinds, h, seed, AllLocalFiles)

(***************************************************************************)
(* The three example faces, the file of one of them not among the local    *)
(* files; the file of the low-quality face 9 is not among them either.     *)
(***************************************************************************)
InitUnresolved ==
    \E missing \in 1 .. 3 :
        \E h \in {0, missing} :
            \E seed \in SeedScenarios :
                InitAll(3, ExampleKinds, h, seed, AllLocalFiles \ {missing, 9})

Init ==
    \/ \E n \in 0 .. MaxFaces :
           \E kinds \in [1 .. n -> FaceKinds] :
               \E h \in HeldChoices(n) :
                   \E seed \in SeedScenarios : InitWith(n, kinds, h, seed)
    \/ InitWith(3, ExampleKinds, 0, [cgroups |-> <<>>, local |-> <<>>])
    \/ InitWith(3, BoundaryKinds, 0, [cgroups |-> <<>>, local |-> <<>>])
    \/ InitUnresolved

(* One worker: run, reconcile, run again on the grown library. *)
Next ==
    \/ FetchCGroups(1)
    \/ IndexSavedClusters(1)
    \/ BeginBatch(1)
    \/ ReportProgress(1)
    \/ Resume(1)
    \/ SkipClustered(1)
    \/ JoinNeighbour(1)
    \/ CreateCluster(1)
    \/ EndBatch(1)
    \/ ReconcileDiff(1)
    \/ ReconcileUpdate(1)
    \/ ReconcileSave(1)
    \/ ReconcileUpdateFails(1)
    \/ ReconcileSaveFails(1)
    \/ NextRun(1)
    \/ ReconcileAgain(1)

Spec == Init /\ [][Next]_vars

(***************************************************************************)
(* Two runs on the same faces and the same saved state, their steps        *)
(* interleaved at every await: the host resumes either of them.            *)
(***************************************************************************)
InitTwo ==
    \E n \in 0 .. MaxFaces - 1 :
        \E kinds \in [1 .. n -> FaceKinds] :
            \E seed \in SeedScenarios : InitWith(n, kinds, 0, seed)

NextTwo ==
    \E r \in Workers :
        \/ FetchCGroups(r)
        \/ IndexSavedClusters(r)
        \/ BeginBatch(r)
        \/ ReportProgress(r)
        \/ Resume(r)
        \/ SkipClustered(r)
        \/ JoinNeighbour(r)
        \/ CreateCluster(r)
        \/ EndBatch(r)

SpecTwo == InitTwo /\ [][NextTwo]_vars

(***************************************************************************)
(* A run of worker 2 whose steps interleave, at every await, with the run  *)
(* of worker 1 and with the reconciliation of worker 1's partition.        *)
(***************************************************************************)
NextShared ==
    \/ \E r \in Workers :
           \/ FetchCGroups(r)
           \/ IndexSavedClusters(r)
           \/ BeginBatch(r)
           \/ ReportProgress(r)
           \/ Resume(r)
           \/ SkipClustered(r)
           \/ JoinNeighbour(r)
           \/ CreateCluster(r)
           \/ EndBatch(r)
    \/ ReconcileDiff(1)
    \/ ReconcileUpdate(1)
    \/ ReconcileSave(1)

SpecShared == InitTwo /\ [][NextShared]_vars

(***************************************************************************)
(* reconcileClusters called by itself: the saved state is one of the seed  *)
(* scenarios and the partition passed in is the saved clusters with, at    *)
(* most, one cluster left out, one cluster grown by a face and one         *)
(* cluster added.                                                          *)
(***************************************************************************)
WithoutCluster(cs, k) ==
    IF k = 0 THEN cs ELSE SubSeq(cs, 1, k - 1) \o SubSeq(cs, k + 1, Len(cs))

WithGrownCluster(cs, k) ==
    IF k = 0 THEN cs ELSE [cs EXCEPT ![k].faces = Append(@, 7)]

WithAddedCluster(cs, added) ==
    IF added THEN Append(cs, Cl(newClusterID(0), <<6>>)) ELSE cs

PartitionChoices(seed) ==
    LET saved == RemoteClusters(seed.cgroups) \o seed.local
    IN  { WithAddedCluster(WithoutCluster(WithGrownCluster(saved, grown), left), added) :
              grown \in 0 .. Len(saved), left \in 0 .. Len(saved), added \in BOOLEAN }

InitReconcile ==
    \E seed \in SeedScenarios :
        \E cs \in PartitionChoices(seed) :
            /\ faceInput = <<>>
            /\ held = 0
            /\ localFiles = AllLocalFiles
            /\ cgroups = seed.cgroups
            /\ localClusters = seed.local
            /\ clock = 2
            /\ idCount = 1
            /\ runNo = [r \in Workers |-> 1]
            /\ pc = [r \in Workers |-> IF r = 1 THEN "done" ELSE "start"]
            /\ faces = [r \in Workers |-> <<>>]
            /\ clusters = [r \in Workers |-> IF r = 1 THEN cs ELSE <<>>]
            /\ faceIDToClusterID = [r \in Workers |-> EmptyMap]
            /\ faceIDToClusterIndex = [r \in Workers |-> EmptyMap]
            /\ offset = [r \in Workers |-> 0]
            /\ batchFaces = [r \in Workers |-> <<>>]
            /\ nClustered = [r \in Workers |-> 0]
            /\ i = [r \in Workers |-> 0]
            /\ progress = [r \in Workers |-> <<>>]
            /\ changed = [r \in Workers |-> <<>>]
            /\ fetched = [r \in Workers |-> <<>>]
            /\ reconNo = [r \in Workers |-> 0]
            /\ updateCalls = <<>>
            /\ saveCalls = <<>>
            /\ prevRun = [clusters |-> <<>>, id |-> EmptyMap, faces |-> <<>>]
            /\ atBootstrap = [r \in Workers |->
                                 [clusters |-> <<>>, id |-> EmptyMap, index |-> EmptyMap,
                                  generated |-> 0]]

NextReconcile ==
    \/ ReconcileDiff(1)
    \/ ReconcileUpdate(1)
    \/ ReconcileSave(1)
    \/ ReconcileUpdateFails(1)
    \/ ReconcileSaveFails(1)

SpecReconcile == InitReconcile /\ [][NextReconcile]_vars

(***************************************************************************)
(* One run under a fair host.  The code between two awaits runs to its     *)
(* end, the awaits on the store resolve, and the host runs the timer of    *)
(* every wait(0), so that a step of the run that can be taken is taken.    *)
(***************************************************************************)
RunStep ==
    \/ FetchCGroups(1)
    \/ IndexSavedClusters(1)
    \/ BeginBatch(1)
    \/ ReportProgress(1)
    \/ SkipClustered(1)
    \/ JoinNeighbour(1)
    \/ CreateCluster(1)
    \/ EndBatch(1)

NextFair == RunStep \/ Resume(1)

(***************************************************************************)
(* The libraries of fewer than MaxFaces faces, those of MaxFaces faces of  *)
(* two alternating kinds, and the ones with a missing file.                *)
(***************************************************************************)
InitFair ==
    \/ InitTwo
    \/ \E a \in FaceKinds :
           \E b \in FaceKinds :
               \E seed \in SeedScenarios :
                   InitWith(MaxFaces, [k \in 1 .. MaxFaces |-> IF k % 2 = 1 THEN a ELSE b],
                            0, seed)
    \/ InitUnresolved

SpecFair == InitFair /\ [][NextFair]_vars /\ WF_vars(RunStep) /\ WF_vars(Resume(1))

(***************************************************************************)
(* Definitions shared by the properties below.  They are about worker 1,   *)
(* the worker of Spec.                                                     *)
(***************************************************************************)
FaceIDs(fs) == {fs[k].faceID : k \in DOMAIN fs}

ClustersWith(cs, faceID) == {c \in DOMAIN cs : faceID \in Range(cs[c].faces)}

(* The saved clusters of every cgroup and the locally saved ones, in any order. *)
SavedClusters ==
    Flatten([g \in DOMAIN cgroups |-> cgroups[g].assigned]) \o localClusters

(* The run of worker r is between its bootstrap and its return. *)
Bootstrapped(r) == pc[r] \in {"batch", "loop", "yield", "proc", "done"}

Similarity(f1, f2) == dotProduct(f1.embedding, f2.embedding)

(***************************************************************************)
(* C1 as stated: after a completed run every face of the input is in       *)
(* exactly one cluster of the returned partition.                          *)
(***************************************************************************)
C1_ExactlyOneCluster ==
    pc[1] = "done" =>
        \A k \in DOMAIN faces[1] :
            Cardinality(ClustersWith(clusters[1], faces[1][k].faceID)) = 1

(***************************************************************************)
(* C1 amended: after a completed run every face of the input is in at      *)
(* least one cluster; it is in exactly one unless the saved clusters the   *)
(* run was seeded from held it in several, and then it is in exactly       *)
(* those.                                                                  *)
(***************************************************************************)
C1_OneClusterUnlessSeededInSeveral ==
    pc[1] = "done" =>
        \A k \in DOMAIN faces[1] :
            LET faceID == faces[1][k].faceID
                seeded == Cardinality(ClustersWith(SavedClusters, faceID))
            IN  Cardinality(ClustersWith(clusters[1], faceID)) =
                    IF seeded > 1 THEN seeded ELSE 1

C1_Witness ==
    /\ pc[1] = "done"
    /\ \E k \in DOMAIN faces[1] : ClustersWith(SavedClusters, faces[1][k].faceID) = {}
    /\ \E k \in DOMAIN faces[1] :
           Cardinality(ClustersWith(SavedClusters, faces[1][k].faceID)) > 1

BatchOffsets(total) == {o \in 0 .. total - 1 : o % offsetIncrement = 0}

(* Positions a and b (1-based) of the run's faces lie in a common batch. *)
InSameBatch(a, b, total) ==
    \E o \in BatchOffsets(total) :
        /\ o < a /\ a <= o + batchSize
        /\ o < b /\ b <= o + batchSize

(***************************************************************************)
(* C3 as stated: after the run, two faces of a common batch whose          *)
(* similarity is at least 0.90 are in the same cluster.                    *)
(***************************************************************************)
C3_HighSimilaritySameCluster ==
    pc[1] = "done" =>
        \A a, b \in DOMAIN faces[1] :
            (/\ a < b
             /\ InSameBatch(a, b, Len(faces[1]))
             /\ Similarity(faces[1][a], faces[1][b]) >= 9000)
            => faceIDToClusterID[1][faces[1][a].faceID] =
               faceIDToClusterID[1][faces[1][b].faceID]

(* The 0-based positions before pos whose face is at least 0.90 similar to the face at pos. *)
HighSimilarityBefore(fs, pos) ==
    {j \in 0 .. pos - 1 : Similarity(fs[pos + 1], fs[j + 1]) >= 9000}

Max(S) == CHOOSE x \in S : \A y \in S : y <= x

(***************************************************************************)
(* C3 amended: a face that is unclustered when its batch position is       *)
(* processed, and has a face of similarity at least 0.90 at an earlier     *)
(* position of the working order, is put into the cluster of the nearest   *)
(* such position (the first one the backward scan meets).  The positions   *)
(* from nClustered to i - 1 are the unclustered faces processed so far.    *)
(***************************************************************************)
C3_JoinsNearestHighSimilarity ==
    \A pos \in nClustered[1] .. i[1] - 1 :
        LET fs == batchFaces[1]
            near == HighSimilarityBefore(fs, pos)
        IN  near # {} =>
                /\ faceIDToClusterIndex[1][fs[pos + 1].faceID] =
                       faceIDToClusterIndex[1][fs[Max(near) + 1].faceID]
                /\ faceIDToClusterID[1][fs[pos + 1].faceID] =
                       faceIDToClusterID[1][fs[Max(near) + 1].faceID]

(* A face joined its nearest 0.90 neighbour while another one, further back, is in another cluster. *)
C3_Witness ==
    \E pos \in nClustered[1] .. i[1] - 1 :
        LET fs == batchFaces[1]
            near == HighSimilarityBefore(fs, pos)
        IN  /\ near # {}
            /\ \E j \in near :
                   faceIDToClusterID[1][fs[j + 1].faceID] #
                       faceIDToClusterID[1][fs[pos + 1].faceID]

(***************************************************************************)
(* C4: a step appends a face to an existing cluster only as the face at    *)
(* the current position i, through a face j at an earlier position of the  *)
(* batch's working order that is recorded in that cluster and whose        *)
(* similarity with i reaches j's threshold (0.84 if j is a bad face, 0.76  *)
(* otherwise).                                                             *)
(***************************************************************************)
C4_JoinOnlyThroughQualifiedNeighbour ==
    [][\A c \in DOMAIN clusters[1] \cap DOMAIN clusters'[1] :
          clusters'[1][c].faces # clusters[1][c].faces =>
              LET fs == batchFaces[1]
                  fi == fs[i[1] + 1]
              IN  /\ clusters'[1][c].faces = Append(clusters[1][c].faces, fi.faceID)
                  /\ \E j \in 0 .. i[1] - 1 :
                         /\ faceIDToClusterIndex[1][fs[j + 1].faceID] = c - 1
                         /\ Similarity(fi, fs[j + 1]) >=
                                (IF fs[j + 1].isBadFace THEN 8400 ELSE 7600)]_vars

(* The face just processed joined a cluster although an earlier face of the batch, in
   another cluster, was below its threshold. *)
C4_Witness ==
    /\ pc[1] = "loop"
    /\ i[1] > nClustered[1]
    /\ LET fs == batchFaces[1]
           fi == fs[i[1]]
           c == faceIDToClusterIndex[1][fi.faceID] + 1
       IN  /\ Len(clusters[1][c].faces) > 1
           /\ clusters[1][c].faces[Len(clusters[1][c].faces)] = fi.faceID
           /\ \E j \in 0 .. i[1] - 2 :
                  /\ faceIDToClusterIndex[1][fs[j + 1].faceID] # c - 1
                  /\ Similarity(fi, fs[j + 1]) >= 7600
                  /\ Similarity(fi, fs[j + 1]) < 8400
                  /\ fs[j + 1].isBadFace

(***************************************************************************)
(* C5 as stated: when a later run completes, every face of the previous    *)
(* run is mapped to the same cluster id as after that run, and every       *)
(* cluster of the previous run is still there with all the face ids it     *)
(* had.                                                                    *)
(***************************************************************************)
ClustersKeepMembers ==
    \A c \in DOMAIN prevRun.clusters :
        \E d \in DOMAIN clusters[1] :
            /\ clusters[1][d].id = prevRun.clusters[c].id
            /\ Range(prevRun.clusters[c].faces) \subseteq Range(clusters[1][d].faces)

C5_MonotonicAcrossRuns ==
    (pc[1] = "done" /\ runNo[1] > 1) =>
        /\ \A faceID \in FaceIDs(prevRun.faces) :
               /\ faceID \in DOMAIN faceIDToClusterID[1]
               /\ faceIDToClusterID[1][faceID] = prevRun.id[faceID]
        /\ ClustersKeepMembers

(***************************************************************************)
(* C5 amended: every cluster of the previous run is still there with all   *)
(* the face ids it had, and every face id that the previous partition held *)
(* in one cluster only is mapped to the same cluster id.  (A face id held  *)
(* by several saved clusters may be mapped to another of them.)            *)
(***************************************************************************)
C5_MonotonicUnlessInSeveralClusters ==
    (pc[1] = "done" /\ runNo[1] > 1) =>
        /\ \A faceID \in DOMAIN prevRun.id :
               /\ faceID \in DOMAIN faceIDToClusterID[1]
               /\ Cardinality(ClustersWith(prevRun.clusters, faceID)) = 1 =>
                      faceIDToClusterID[1][faceID] = prevRun.id[faceID]
        /\ ClustersKeepMembers

(* A later run with an additional face is complete, after a reconciliation that updated a cgroup. *)
C5_Witness ==
    /\ pc[1] = "done"
    /\ runNo[1] > 1
    /\ held # 0
    /\ updateCalls # <<>>
    /\ Len(faces[1]) > Len(prevRun.faces)
    /\ \E faceID \in DOMAIN prevRun.id :
           Cardinality(ClustersWith(prevRun.clusters, faceID)) > 1

(***************************************************************************)
(* C6: within a run every step keeps each cluster at its position with its *)
(* id and with its face list as a prefix of the new one, and keeps the     *)
(* cluster id and cluster index of every face id already mapped.           *)
(***************************************************************************)
C6_OnlyAppends ==
    [][runNo'[1] = runNo[1] =>
          /\ \A c \in DOMAIN clusters[1] :
                 /\ c \in DOMAIN clusters'[1]
                 /\ clusters'[1][c].id = clusters[1][c].id
                 /\ IsPrefix(clusters[1][c].faces, clusters'[1][c].faces)
          /\ \A faceID \in DOMAIN faceIDToClusterID[1] :
                 /\ faceID \in DOMAIN faceIDToClusterID'[1]
                 /\ faceIDToClusterID'[1][faceID] = faceIDToClusterID[1][faceID]
                 /\ faceIDToClusterIndex'[1][faceID] = faceIDToClusterIndex[1][faceID]]_vars

(* A cluster that came from a cgroup has got a face in this run. *)
C6_Witness ==
    /\ Bootstrapped(1)
    /\ \E g \in DOMAIN cgroups :
           \E k \in DOMAIN cgroups[g].assigned :
               \E c \in DOMAIN clusters[1] :
                   /\ clusters[1][c].id = cgroups[g].assigned[k].id
                   /\ Len(clusters[1][c].faces) > Len(cgroups[g].assigned[k].faces)
                   /\ IsPrefix(cgroups[g].assigned[k].faces, clusters[1][c].faces)

(* A saved cluster has got a face in the run of worker 1. *)
SeedClusterHasGrown ==
    \E c \in DOMAIN SavedClusters :
        \E d \in DOMAIN clusters[1] :
            /\ clusters[1][d].id = SavedClusters[c].id
            /\ Len(clusters[1][d].faces) > Len(SavedClusters[c].faces)

(***************************************************************************)
(* C7: in every state the two reverse maps have the same keys, and for     *)
(* every key the cluster at the recorded index has the recorded id.        *)
(***************************************************************************)
C7_ReverseMapsAgree ==
    /\ DOMAIN faceIDToClusterID[1] = DOMAIN faceIDToClusterIndex[1]
    /\ \A faceID \in DOMAIN faceIDToClusterID[1] :
           /\ faceIDToClusterIndex[1][faceID] \in 0 .. Len(clusters[1]) - 1
           /\ clusters[1][faceIDToClusterIndex[1][faceID] + 1].id =
                  faceIDToClusterID[1][faceID]

(* At a yield point inside a batch, after a face has joined a saved cluster. *)
C7_Witness ==
    /\ pc[1] = "yield"
    /\ i[1] > 0
    /\ SeedClusterHasGrown

(***************************************************************************)
(* C8: after a completed run every face of the input and every face of the *)
(* seed is a key of both reverse maps, and the cluster at its recorded     *)
(* index has it in its face list.                                          *)
(***************************************************************************)
C8_MapsConsistentWithFaceLists ==
    pc[1] = "done" =>
        \A faceID \in FaceIDs(faces[1]) \cup
                      UNION {Range(SavedClusters[c].faces) : c \in DOMAIN SavedClusters} :
            /\ faceID \in DOMAIN faceIDToClusterID[1]
            /\ faceID \in DOMAIN faceIDToClusterIndex[1]
            /\ faceIDToClusterIndex[1][faceID] < Len(clusters[1])
            /\ faceID \in Range(clusters[1][faceIDToClusterIndex[1][faceID] + 1].faces)

(* A completed run that skipped seeded faces, joined a face to a cluster and made a cluster. *)
C8_Witness ==
    /\ pc[1] = "done"
    /\ \E k \in DOMAIN faces[1] : ClustersWith(SavedClusters, faces[1][k].faceID) # {}
    /\ Len(clusters[1]) > Len(SavedClusters)
    /\ SeedClusterHasGrown

(* The saved cgroups (storage positions) with faceID in an assigned cluster. *)
GroupsWith(faceID) ==
    {g \in DOMAIN cgroups :
        \E k \in DOMAIN cgroups[g].assigned : faceID \in Range(cgroups[g].assigned[k].faces)}

(* Cgroup g is scanned before cgroup h: it is newer, or as new and earlier in storage. *)
ScannedBefore(g, h) ==
    \/ cgroups[g].updatedAt > cgroups[h].updatedAt
    \/ cgroups[g].updatedAt = cgroups[h].updatedAt /\ g < h

FirstWith(cs, faceID) ==
    CHOOSE k \in DOMAIN cs :
        /\ faceID \in Range(cs[k].faces)
        /\ \A m \in DOMAIN cs : faceID \in Range(cs[m].faces) => k <= m

(* The number of assigned clusters of the cgroups scanned before cgroup g. *)
ClustersScannedBefore(g) ==
    Cardinality(UNION {{<<h, k>> : k \in DOMAIN cgroups[h].assigned} :
                         h \in {h \in DOMAIN cgroups : ScannedBefore(h, g)}})

AllRemoteClusters == Flatten([g \in DOMAIN cgroups |-> cgroups[g].assigned])

IDs(cs) == [c \in DOMAIN cs |-> cs[c].id]

(* ids1 and ids2 are equal up to a renaming of the generated ids that keeps the saved ids. *)
SameUpToGeneratedIDs(ids1, ids2) ==
    /\ DOMAIN ids1 = DOMAIN ids2
    /\ \A c \in DOMAIN ids1 :
           /\ (ids1[c] < FreshBase \/ ids2[c] < FreshBase) => ids1[c] = ids2[c]
           /\ \A d \in DOMAIN ids1 : (ids1[c] = ids1[d]) <=> (ids2[c] = ids2[d])

(***************************************************************************)
(* C10: two runs on the same ordered faces and the same saved state,       *)
(* resumed by the host in any interleaving, return the same partition: the *)
(* same face lists in the same cluster order, the same cluster indexes,    *)
(* and the same cluster ids up to the names of the generated ones.         *)
(***************************************************************************)
C10_Deterministic ==
    (pc[1] = "done" /\ pc[2] = "done") =>
        /\ Len(clusters[1]) = Len(clusters[2])
        /\ \A c \in DOMAIN clusters[1] : clusters[1][c].faces = clusters[2][c].faces
        /\ SameUpToGeneratedIDs(IDs(clusters[1]), IDs(clusters[2]))
        /\ faceIDToClusterIndex[1] = faceIDToClusterIndex[2]

(* Both runs are complete, a face joined a generated cluster, and the runs took their ids in turns. *)
C10_Witness ==
    /\ pc[1] = "done"
    /\ pc[2] = "done"
    /\ Len(clusters[1]) > Len(SavedClusters) + 1
    /\ \E c \in DOMAIN clusters[1] :
           clusters[1][c].id >= FreshBase /\ Len(clusters[1][c].faces) > 1
    /\ IDs(clusters[1]) # IDs(clusters[2])
    /\ \E c \in DOMAIN clusters[1] : clusters[1][c].id > clusters[2][c].id
    /\ \E c \in DOMAIN clusters[1] : clusters[1][c].id < clusters[2][c].id

(* The face ids of the library that enumerateFaces rejects. *)
LowQualityFaceIDs ==
    {LowQualityFaces[k].faceID : k \in
        {m \in DOMAIN LowQualityFaces :
            LowQualityFaces[m].blur <= minBlur \/ LowQualityFaces[m].score <= minScore}}

(* The clusters a run is seeded with, in the order of the bootstrap. *)
SeedClusters == RemoteClusters(cgroups) \o localClusters

(***************************************************************************)
(* C11, as stated: a face with blur <= 10 or score <= 0.8 is in no cluster *)
(* of the partition a run returns.                                         *)
(***************************************************************************)
C11_LowQualityInNoCluster ==
    pc[1] = "done" =>
        \A faceID \in LowQualityFaceIDs : ClustersWith(clusters[1], faceID) = {}

(***************************************************************************)
(* C11, amended: a run never takes a face with blur <= 10 or score <= 0.8  *)
(* as input and never adds one to a cluster; such a face is in a cluster   *)
(* of the returned partition only where the seed cluster at that position  *)
(* already held it.                                                        *)
(***************************************************************************)
C11_LowQualityOnlyFromSeed ==
    Bootstrapped(1) =>
        \A faceID \in LowQualityFaceIDs :
            /\ faceID \notin FaceIDs(faces[1])
            /\ \A c \in ClustersWith(clusters[1], faceID) :
                   /\ c <= Len(SeedClusters)
                   /\ faceID \in Range(SeedClusters[c].faces)

(* A run on a library with rejected faces made clusters; one seed cluster holds a rejected face. *)
C11_Witness ==
    /\ pc[1] = "done"
    /\ Len(clusters[1]) > Len(SeedClusters)
    /\ SeedClusterHasGrown
    /\ \E faceID \in LowQualityFaceIDs : ClustersWith(clusters[1], faceID) # {}

(* The reconcile of the current run of worker 1 has issued its update call. *)
UpdateIssued ==
    /\ updateCalls # <<>>
    /\ updateCalls[Len(updateCalls)] = changed[1]

(* The reconcile of the current run of worker 1 has issued its local save. *)
SaveIssued ==
    /\ saveCalls # <<>>
    /\ saveCalls[Len(saveCalls)] = LocalOnlyClusters(clusters[1], fetched[1])
    /\ localClusters = LocalOnlyClusters(clusters[1], fetched[1])

(***************************************************************************)
(* C12, as stated: the update of the cgroups and the local save fail       *)
(* independently.  When reconcile has ended with a failed update call, the *)
(* local save of the unsynced clusters has been performed; when it has     *)
(* ended with a failed local save, the update of the changed groups (if    *)
(* any) has been performed.                                                *)
(***************************************************************************)
C12_FailuresIndependent ==
    /\ pc[1] = "updateFailed" => SaveIssued
    /\ pc[1] = "saveFailed" => (changed[1] # <<>> => UpdateIssued)

(* The half that the order of the two calls gives: a failed save comes after the update. *)
C12_UpdateBeforeFailedSave ==
    pc[1] = "saveFailed" => (changed[1] # <<>> => UpdateIssued)

(* The update call failed with unsynced clusters waiting to be saved. *)
C12_UpdateFailedWithUnsaved ==
    /\ pc[1] = "updateFailed"
    /\ LocalOnlyClusters(clusters[1], fetched[1]) # <<>>
    /\ LocalOnlyClusters(clusters[1], fetched[1]) # localClusters

(* Every assigned cluster of every cgroup has in cs the face count that is recorded for it. *)
NoGrowth(cgroupEntities, cs) ==
    \A g \in DOMAIN cgroupEntities :
        \A k \in DOMAIN cgroupEntities[g].assigned :
            LET old == cgroupEntities[g].assigned[k]
            IN  /\ HasClusterID(cs, old.id)
                /\ Len(clusterByID(cs, old.id).faces) = Len(old.faces)

(***************************************************************************)
(* C13: when no assigned cluster of any cgroup has another face count in   *)
(* the partition than is recorded, reconcile goes from its diff straight   *)
(* to the local save, and an update call is issued only when some assigned *)
(* cluster has grown; a second reconcile of the same partition, still      *)
(* without growth, saves the same local-only clusters as the first.        *)
(***************************************************************************)
C13_NoGrowthNoUpdate ==
    [][ /\ (pc[1] \in {"done", "redo"} /\ pc'[1] # pc[1]
               /\ NoGrowth(cgroups, clusters[1]))
           => (pc'[1] = "save" /\ changed'[1] = <<>> /\ updateCalls' = updateCalls)
        /\ (updateCalls' # updateCalls)
           => (pc[1] = "update" /\ ~NoGrowth(fetched[1], clusters[1]))
        /\ (pc[1] = "save" /\ pc'[1] = "reconciled" /\ reconNo[1] >= 2
               /\ NoGrowth(fetched[1], clusters[1]))
           => (/\ Len(saveCalls') >= 2
               /\ saveCalls'[Len(saveCalls')] = saveCalls'[Len(saveCalls') - 1]
               /\ localClusters' = localClusters) ]_vars

(* A partition with cgroups, none grown, and local-only clusters was reconciled twice without any update call. *)
C13_Witness ==
    /\ pc[1] = "reconciled"
    /\ reconNo[1] = 2
    /\ fetched[1] # <<>>
    /\ NoGrowth(fetched[1], clusters[1])
    /\ updateCalls = <<>>
    /\ saveCalls[Len(saveCalls)] # <<>>

(* The positions of the cgroups with an assigned cluster whose face count differs in cs. *)
GrownGroups(cgroupEntities, cs) ==
    {g \in DOMAIN cgroupEntities :
        \E k \in DOMAIN cgroupEntities[g].assigned :
            \E c \in DOMAIN cs :
                /\ cs[c].id = cgroupEntities[g].assigned[k].id
                /\ Len(cs[c].faces) # Len(cgroupEntities[g].assigned[k].faces)}

(* entity is the cgroup old with each assigned cluster replaced by the cluster of cs of the same id. *)
IsRewritten(entity, old, cs) ==
    /\ entity.id = old.id
    /\ entity.updatedAt = old.updatedAt
    /\ DOMAIN entity.assigned = DOMAIN old.assigned
    /\ \A k \in DOMAIN old.assigned :
           /\ entity.assigned[k].id = old.assigned[k].id
           /\ \E c \in DOMAIN cs : cs[c] = entity.assigned[k]

(* call holds exactly the grown cgroups, each once and rewritten. *)
IsCallForGrownGroups(call, cgroupEntities, cs) ==
    /\ Len(call) = Cardinality(GrownGroups(cgroupEntities, cs))
    /\ \A g \in GrownGroups(cgroupEntities, cs) :
           \E m \in DOMAIN call : IsRewritten(call[m], cgroupEntities[g], cs)
    /\ \A m \in DOMAIN call :
           \E g \in GrownGroups(cgroupEntities, cs) : call[m].id = cgroupEntities[g].id

(***************************************************************************)
(* C14: when an assigned cluster of some cgroup has grown, reconcile goes  *)
(* from its diff to the update and issues one update call for the whole    *)
(* reconcile; the call holds exactly the cgroups with an assigned cluster  *)
(* whose face count changed, each with all its assigned clusters replaced  *)
(* by the partition's clusters of the same ids, and no unchanged cgroup.   *)
(***************************************************************************)
C14_OneUpdateCallForGrownGroups ==
    [][ /\ (pc[1] \in {"done", "redo"} /\ pc'[1] \notin {pc[1], "failed"}
               /\ GrownGroups(cgroups, clusters[1]) # {})
           => pc'[1] = "update"
        /\ (pc[1] = "update" /\ pc'[1] = "save")
           => (/\ Len(updateCalls') = Len(updateCalls) + 1
               /\ IsCallForGrownGroups(updateCalls'[Len(updateCalls')],
                                       fetched[1], clusters[1]))
        /\ (updateCalls' # updateCalls)
           => (pc[1] = "update" /\ pc'[1] = "save"
               /\ SubSeq(updateCalls', 1, Len(updateCalls)) = updateCalls) ]_vars

(* One update call was issued for two cgroups of which one has grown; the grown one has two assigned clusters. *)
C14_Witness ==
    /\ pc[1] = "save"
    /\ Len(fetched[1]) = 2
    /\ Cardinality(GrownGroups(fetched[1], clusters[1])) = 1
    /\ updateCalls # <<>>
    /\ updateCalls[Len(updateCalls)] = changed[1]
    /\ Len(changed[1]) = 1
    /\ Len(changed[1][1].assigned) = 2

(* The ids of the assigned clusters of the cgroups. *)
AssignedIDs(cgroupEntities) ==
    {c.id : c \in Range(Flatten([g \in DOMAIN cgroupEntities |-> cgroupEntities[g].assigned]))}

(* The positions in cs of the clusters that are in no cgroup. *)
UnsyncedPositions(cs, cgroupEntities) ==
    {c \in DOMAIN cs : cs[c].id \notin AssignedIDs(cgroupEntities)}

(***************************************************************************)
(* C15: the clusters that reconcile saves locally are exactly the clusters *)
(* of the partition whose id is not the id of an assigned cluster of any   *)
(* saved cgroup, changed or not, each once and in the partition's order.   *)
(***************************************************************************)
C15_SavesExactlyUnsynced ==
    pc[1] = "reconciled" =>
        LET saved == saveCalls[Len(saveCalls)]
            keep == UnsyncedPositions(clusters[1], fetched[1])
        IN  /\ localClusters = saved
            /\ Len(saved) = Cardinality(keep)
            /\ \A c \in keep : \E m \in DOMAIN saved : saved[m] = clusters[1][c]
            /\ \A m \in DOMAIN saved : \E c \in keep : saved[m] = clusters[1][c]
            /\ \A m, n \in DOMAIN saved :
                   m < n => \E c, d \in keep :
                                c < d /\ saved[m] = clusters[1][c] /\ saved[n] = clusters[1][d]

(* Two cgroups, one grown and one not, and a cluster in no cgroup: the save left out both cgroups' clusters. *)
C15_Witness ==
    /\ pc[1] = "reconciled"
    /\ Len(fetched[1]) = 2
    /\ Cardinality(GrownGroups(fetched[1], clusters[1])) = 1
    /\ saveCalls[Len(saveCalls)] # <<>>
    /\ Len(saveCalls[Len(saveCalls)]) < Len(clusters[1])

(***************************************************************************)
(* C16: a step writes to the entity store or to the local cluster store    *)
(* only in reconcileClusters (its update or its save), and then the run    *)
(* has returned: every batch of the face list is complete.  No step of a   *)
(* run, from its start to the end of its last batch, writes to either.     *)
(***************************************************************************)
C16_PersistOnlyAfterRun ==
    [][ (storeVars' # storeVars)
           => (/\ pc[1] \in {"update", "save"}
               /\ pc'[1] \in {"save", "reconciled"}
               /\ offset[1] >= Len(faces[1])
               /\ faces' = faces /\ stateVars' = stateVars /\ batchVars' = batchVars) ]_vars

(* A run of several batches was reconciled with an update call and a non-empty local save. *)
C16_Witness ==
    /\ pc[1] = "reconciled"
    /\ runNo[1] = 1
    /\ offset[1] > offsetIncrement
    /\ updateCalls # <<>>
    /\ saveCalls # <<>>
    /\ saveCalls[Len(saveCalls)] # <<>>
    /\ Len(progress[1]) > 2

(* The run is on the faces A, B, C in this order, with nothing saved. *)
IsExampleRun ==
    /\ Len(faceInput) = 3
    /\ \A k \in 1 .. 3 : faceInput[k].embedding = ExampleKinds[k].embedding
    /\ \A k \in 1 .. 3 : ~faceInput[k].isBadFace
    /\ held = 0
    /\ runNo[1] = 1
    /\ cgroups = <<>>
    /\ pc[1] = "done"

(***************************************************************************)
(* C17: with nothing saved and faces A, B, C (none a bad face, A.B = 0.95, *)
(* A.C = B.C = 0.70) in this order, the run returns exactly two clusters:  *)
(* A with B, and C alone.                                                  *)
(***************************************************************************)
C17_ExampleTwoClusters ==
    IsExampleRun =>
        /\ Len(clusters[1]) = 2
        /\ clusters[1][1].faces = <<1, 2>>
        /\ clusters[1][2].faces = <<3>>
        /\ clusters[1][1].id # clusters[1][2].id

(* The run on A, B, C is complete; the similarities are the stated ones. *)
C17_Witness ==
    /\ IsExampleRun
    /\ Similarity(faceInput[1], faceInput[2]) = 9500
    /\ Similarity(faceInput[1], faceInput[3]) = 7000
    /\ Similarity(faceInput[2], faceInput[3]) = 7000
    /\ clusters[1] # <<>>

(* The run in progress has the faces of the previous run, whose result was persisted. *)
IsRerun == runNo[1] > 1 /\ Bootstrapped(1) /\ faces[1] = prevRun.faces

(***************************************************************************)
(* C18: a run on the same faces as the previous run, seeded from what the  *)
(* previous run produced and reconcile persisted, finds no unclustered     *)
(* face in any batch (it never enters the per-face loop), creates no       *)
(* cluster and appends no face: it holds the clusters of the previous run, *)
(* each with the same id and the same face list.                           *)
(***************************************************************************)
C18_RerunIdempotent ==
    IsRerun =>
        /\ pc[1] \in {"batch", "done"}
        /\ Len(clusters[1]) = Len(prevRun.clusters)
        /\ Range(clusters[1]) = Range(prevRun.clusters)
        /\ \A k \in DOMAIN faces[1] : HasCluster(1, faces[1][k].faceID)

(* C18 read with the cluster order: the rerun returns the same list of clusters. *)
C18_RerunSameOrder ==
    (IsRerun /\ pc[1] = "done") => clusters[1] = prevRun.clusters

(* The rerun is complete; the previous run made clusters and grew a cgroup's cluster, several batches exited early. *)
C18_Witness ==
    /\ IsRerun
    /\ pc[1] = "done"
    /\ Len(faces[1]) >= 3
    /\ updateCalls # <<>>
    /\ localClusters # <<>>
    /\ Len(progress[1]) >= 2

(* The similarity of the faces at positions pos and j of fs. *)
SimAt(fs, pos, j) == Similarity(fs[pos + 1], fs[j + 1])

(* The acceptance threshold of the candidate at position j: by the candidate's kind. *)
CandidateThreshold(fs, j) ==
    IF fs[j + 1].isBadFace THEN badFaceThreshold ELSE goodFaceThreshold

(* The candidate at j reaches its threshold. *)
AcceptsAt(fs, pos, j) == SimAt(fs, pos, j) > 0 /\ SimAt(fs, pos, j) >= CandidateThreshold(fs, j)

(* The candidate at j is strictly above its threshold. *)
AcceptsAbove(fs, pos, j) == SimAt(fs, pos, j) > 0 /\ SimAt(fs, pos, j) > CandidateThreshold(fs, j)

(* The acceptance rule: strictly above the threshold, or from the threshold on. *)
Acc(fs, pos, j, strict) ==
    IF strict THEN AcceptsAbove(fs, pos, j) ELSE AcceptsAt(fs, pos, j)

(***************************************************************************)
(* Position j is where a backward scan from pos - 1 ends up under the      *)
(* acceptance rule: j is accepted; no accepted position scanned before     *)
(* it is as similar as j or ends the scan; and either j ends the scan      *)
(* (similarity >= 0.90) or no accepted position below it is more similar.  *)
(***************************************************************************)
IsChosen(fs, pos, j, strict) ==
    /\ j \in 0 .. pos - 1
    /\ Acc(fs, pos, j, strict)
    /\ \A k \in j + 1 .. pos - 1 :
           Acc(fs, pos, k, strict) => (SimAt(fs, pos, k) < SimAt(fs, pos, j) /\ SimAt(fs, pos, k) < earlyExitThreshold)
    /\ \/ SimAt(fs, pos, j) >= earlyExitThreshold
       \/ \A k \in 0 .. j - 1 : ~(Acc(fs, pos, k, strict) /\ SimAt(fs, pos, k) > SimAt(fs, pos, j))

(* The step places the unclustered face at position i: it joins a cluster or gets a new one. *)
PlacesFace ==
    /\ pc[1] \in {"loop", "proc"}
    /\ pc'[1] = "loop"
    /\ i'[1] = i[1] + 1
    /\ clusters'[1] # clusters[1]

(* The placement under the acceptance rule. *)
PlacedByRule(strict) ==
    LET fs == batchFaces[1]
        pos == i[1]
        faceID == fs[pos + 1].faceID
    IN  IF Len(clusters'[1]) = Len(clusters[1])
        THEN \E j \in 0 .. pos - 1 :
                 /\ IsChosen(fs, pos, j, strict)
                 /\ faceIDToClusterIndex'[1][faceID] = faceIDToClusterIndex[1][fs[j + 1].faceID]
        ELSE \A j \in 0 .. pos - 1 : ~Acc(fs, pos, j, strict)

(***************************************************************************)
(* C19, as stated: in the backward scan a candidate j replaces the best    *)
(* neighbour so far only if its similarity is strictly greater than the    *)
(* best so far and strictly greater than j's threshold (0.84 if j is a bad *)
(* face, else 0.76): a face is placed as that rule says.                   *)
(***************************************************************************)
C19_AcceptsAboveThreshold == [][PlacesFace => PlacedByRule(TRUE)]_vars

(***************************************************************************)
(* C19, amended: a candidate j replaces the best neighbour so far only if  *)
(* its similarity is strictly greater than the best so far and greater     *)
(* than or equal to j's threshold (0.84 if j is a bad face, else 0.76); a  *)
(* candidate whose similarity equals its threshold is accepted.            *)
(***************************************************************************)
C19_AcceptsFromThreshold == [][PlacesFace => PlacedByRule(FALSE)]_vars

(* The faces on the boundaries were clustered: both joined the first face's cluster. *)
C19_Witness ==
    /\ pc[1] = "done"
    /\ Len(faces[1]) = 3
    /\ SimAt(faces[1], 1, 0) = 8400 /\ faces[1][1].isBadFace
    /\ SimAt(faces[1], 2, 1) = 7600 /\ ~faces[1][2].isBadFace
    /\ Len(clusters[1]) = 1
    /\ clusters[1][1].faces = <<1, 2, 3>>

(* The positions below pos whose face has similarity >= 0.90 with the face at pos. *)
HighSimilarityPositions(fs, pos) ==
    {j \in 0 .. pos - 1 : SimAt(fs, pos, j) >= earlyExitThreshold}

(***************************************************************************)
(* C20: when the backward scan for the face at position i meets, going     *)
(* down from i - 1, a first position j with similarity >= 0.90, the scan   *)
(* ends there: the face joins the cluster recorded for that j, whatever    *)
(* the similarities of the positions below j are.                          *)
(***************************************************************************)
C20_StopsAtFirstHighSimilarity ==
    [][ (PlacesFace /\ HighSimilarityPositions(batchFaces[1], i[1]) # {})
           => LET fs == batchFaces[1]
                  j == Max(HighSimilarityPositions(fs, i[1]))
                  faceID == fs[i[1] + 1].faceID
                  index == faceIDToClusterIndex[1][fs[j + 1].faceID]
              IN  /\ Len(clusters'[1]) = Len(clusters[1])
                  /\ faceIDToClusterIndex'[1][faceID] = index
                  /\ faceIDToClusterID'[1][faceID] = clusters[1][index + 1].id
                  /\ clusters'[1][index + 1].faces = Append(clusters[1][index + 1].faces, faceID) ]_vars

(***************************************************************************)
(* The face just placed joined the cluster of the nearest position with    *)
(* similarity >= 0.90 although a position further back, of another         *)
(* cluster, is more similar.                                               *)
(***************************************************************************)
C20_Witness ==
    /\ pc[1] = "loop"
    /\ i[1] > nClustered[1]
    /\ LET fs == batchFaces[1]
           pos == i[1] - 1
       IN  /\ HighSimilarityPositions(fs, pos) # {}
           /\ LET j == Max(HighSimilarityPositions(fs, pos))
              IN  /\ faceIDToClusterIndex[1][fs[pos + 1].faceID]
                        = faceIDToClusterIndex[1][fs[j + 1].faceID]
                  /\ \E k \in 0 .. j - 1 :
                         /\ SimAt(fs, pos, k) > SimAt(fs, pos, j)
                         /\ faceIDToClusterIndex[1][fs[k + 1].faceID]
                                # faceIDToClusterIndex[1][fs[j + 1].faceID]

(***************************************************************************)
(* C21: when the scan found a neighbour for the unclustered face at        *)
(* position i, the face id is appended to the face list of the cluster at  *)
(* the index the index map records for that neighbour, and the face gets   *)
(* that cluster's id and that index in the two maps; every other cluster   *)
(* and every other entry of the two maps is as before the step.            *)
(***************************************************************************)
C21_JoinsNeighboursCluster ==
    [][ (PlacesFace /\ \E j \in 0 .. i[1] - 1 : IsChosen(batchFaces[1], i[1], j, FALSE))
           => LET fs == batchFaces[1]
                  faceID == fs[i[1] + 1].faceID
              IN  \E j \in 0 .. i[1] - 1 :
                      LET index == faceIDToClusterIndex[1][fs[j + 1].faceID]
                      IN  /\ IsChosen(fs, i[1], j, FALSE)
                          /\ clusters'[1] =
                                 [clusters[1] EXCEPT ![index + 1].faces = Append(@, faceID)]
                          /\ faceIDToClusterID'[1] =
                                 (faceID :> clusters[1][index + 1].id) @@ faceIDToClusterID[1]
                          /\ faceIDToClusterIndex'[1] =
                                 (faceID :> index) @@ faceIDToClusterIndex[1]
                          /\ faceID \notin DOMAIN faceIDToClusterID[1]
                          /\ faceID \notin DOMAIN faceIDToClusterIndex[1] ]_vars

(* The face just placed joined a cluster that is not the first of several clusters. *)
C21_Witness ==
    /\ pc[1] = "loop"
    /\ i[1] > nClustered[1]
    /\ Len(clusters[1]) >= 2
    /\ LET faceID == batchFaces[1][i[1]].faceID
           index == faceIDToClusterIndex[1][faceID]
       IN  /\ index >= 1
           /\ Len(clusters[1][index + 1].faces) >= 2
           /\ clusters[1][index + 1].faces[Len(clusters[1][index + 1].faces)] = faceID
           /\ faceIDToClusterID[1][faceID] = clusters[1][index + 1].id

(***************************************************************************)
(* C22: when no earlier position of the working order is accepted as a     *)
(* neighbour of the unclustered face at position i (position 0 included),  *)
(* the step appends to the cluster list one cluster whose face list is     *)
(* the face alone and whose id is the id of no cluster of the list, maps   *)
(* the face to that id and to the last index, and leaves the clusters      *)
(* that were there and the other map entries as they were.                 *)
(***************************************************************************)
C22_NewClusterAtEnd ==
    [][ (PlacesFace /\ \A j \in 0 .. i[1] - 1 : ~Acc(batchFaces[1], i[1], j, FALSE))
           => LET faceID == batchFaces[1][i[1] + 1].faceID
                  n == Len(clusters[1])
              IN  /\ Len(clusters'[1]) = n + 1
                  /\ SubSeq(clusters'[1], 1, n) = clusters[1]
                  /\ clusters'[1][n + 1].faces = <<faceID>>
                  /\ \A c \in 1 .. n : clusters[1][c].id # clusters'[1][n + 1].id
                  /\ faceIDToClusterID'[1] =
                         (faceID :> clusters'[1][n + 1].id) @@ faceIDToClusterID[1]
                  /\ faceIDToClusterIndex'[1] = (faceID :> n) @@ faceIDToClusterIndex[1]
                  /\ faceID \notin DOMAIN faceIDToClusterID[1] ]_vars

(* The face just placed has earlier faces, none accepted, and got a new cluster after the existing ones. *)
C22_Witness ==
    /\ pc[1] = "loop"
    /\ i[1] > nClustered[1]
    /\ i[1] >= 2
    /\ Len(clusters[1]) >= 2
    /\ clusters[1][Len(clusters[1])].faces = <<batchFaces[1][i[1]].faceID>>
    /\ clusters[1][Len(clusters[1])].id >= FreshBase
    /\ faceIDToClusterIndex[1][batchFaces[1][i[1]].faceID] = Len(clusters[1]) - 1
    /\ \A j \in 0 .. i[1] - 2 : ~Acc(batchFaces[1], i[1] - 1, j, FALSE)

(* The clustering state of worker r as one record. *)
StateOf(r) ==
    [clusters |-> clusters[r], id |-> faceIDToClusterID[r],
     index |-> faceIDToClusterIndex[r], generated |-> idCount]

(* The faces of the window that starts at position off of the face list. *)
Window(fs, off) ==
    [k \in 1 .. (IF Len(fs) - off < batchSize THEN Len(fs) - off ELSE batchSize) |->
        fs[off + k]]

(* Every face of the window at the current offset of worker 1 has a cluster. *)
NothingUnclustered ==
    \A k \in DOMAIN Window(faces[1], offset[1]) :
        Window(faces[1], offset[1])[k].faceID \in DOMAIN faceIDToClusterID[1]

(***************************************************************************)
(* C23: a batch without an unclustered face takes the early exit, which    *)
(* reports completed = the batch length (passed on with the offset added)  *)
(* and leaves the cluster list and the two maps as they are; the per-face  *)
(* loop run on that batch leaves the same state.                           *)
(***************************************************************************)
C23_EarlyExitIsOptimization ==
    [][ (pc[1] = "batch")
           => IF NothingUnclustered
              THEN /\ pc'[1] # "loop"
                   /\ progress'[1] =
                          Append(progress[1],
                                 [completed |-> offset[1] + Len(Window(faces[1], offset[1])),
                                  total |-> Len(faces[1])])
                   /\ stateVars' = stateVars
                   /\ idCount' = idCount
                   /\ PerFaceLoop(StateOf(1), Window(faces[1], offset[1]), 0) = StateOf(1)
              ELSE pc'[1] = "loop" /\ progress' = progress ]_vars

(* A batch of a first run took the early exit after an earlier batch had made clusters. *)
C23_Witness ==
    /\ pc[1] \in {"batch", "done"}
    /\ runNo[1] = 1
    /\ offset[1] >= offsetIncrement
    /\ Len(clusters[1]) > Len(SeedClusters)
    /\ progress[1] # <<>>
    /\ LET before == offset[1] - offsetIncrement
       IN  /\ Len(Window(faces[1], before)) >= 2
           /\ progress[1][Len(progress[1])].completed
                  = before + Len(Window(faces[1], before))

(***************************************************************************)
(* C24: in the per-face loop of a batch, progress is reported at the       *)
(* working-order positions i with i mod 100 = 0 (100 scaled to             *)
(* progressEvery; clustered positions count) and at no other; the report   *)
(* has completed = i (passed on with the offset added) and is followed by  *)
(* a yield; position i is processed only after the host resumed the loop,  *)
(* and neither the report nor the yield changes the clustering state.      *)
(***************************************************************************)
C24_ReportsEveryHundredThenYields ==
    [][ /\ (pc[1] \in {"loop", "yield", "proc"} /\ progress' # progress)
           => (/\ pc[1] = "loop"
               /\ i[1] % progressEvery = 0
               /\ pc'[1] = "yield"
               /\ progress'[1] = Append(progress[1],
                                        [completed |-> offset[1] + i[1],
                                         total |-> Len(faces[1])])
               /\ stateVars' = stateVars /\ batchVars' = batchVars)
        /\ (pc[1] = "loop" /\ i[1] < Len(batchFaces[1]) /\ i[1] % progressEvery = 0)
           => progress' # progress
        /\ (pc[1] = "yield")
           => (pc'[1] = "proc" /\ stateVars' = stateVars /\ batchVars' = batchVars
               /\ progress' = progress /\ idCount' = idCount)
        /\ (pc[1] = "proc")
           => (/\ i[1] % progressEvery = 0
               /\ progress[1][Len(progress[1])].completed = offset[1] + i[1])
        /\ (pc[1] \in {"loop", "proc"} /\ i'[1] = i[1] + 1)
           => (pc[1] = "proc" <=> i[1] % progressEvery = 0) ]_vars

(* The loop was resumed after the report of a position beyond 0 that follows clustered positions. *)
C24_Witness ==
    /\ pc[1] = "proc"
    /\ i[1] > 0
    /\ nClustered[1] > 0
    /\ Len(progress[1]) >= 2
    /\ progress[1][Len(progress[1])].completed = offset[1] + i[1]

(* The 0-based positions of the face list of length total that window k covers. *)
WindowPositions(k, total) ==
    {p \in 0 .. total - 1 : k * offsetIncrement <= p /\ p < k * offsetIncrement + batchSize}

(* The numbers of the windows of a face list of length total. *)
WindowNumbers(total) == {k \in 0 .. total : k * offsetIncrement < total}

(***************************************************************************)
(* C25: the run processes the windows faces[k * offsetIncrement,           *)
(* k * offsetIncrement + batchSize) for k = 0, 1, ... while                *)
(* k * offsetIncrement < total, in this order and each once; consecutive   *)
(* full windows share batchSize - offsetIncrement faces and every face of  *)
(* the list is in at least one window.                                     *)
(***************************************************************************)
C25_OverlappingWindows ==
    [][ /\ (pc[1] = "fetched")
           => (offset'[1] = 0 /\ (pc'[1] = "batch" <=> 0 \in WindowNumbers(Len(faces[1])))
               /\ (pc'[1] = "done" <=> WindowNumbers(Len(faces[1])) = {}))
        /\ (pc[1] \in {"batch", "loop", "yield", "proc"})
           => (/\ offset[1] % offsetIncrement = 0
               /\ (offset[1] \div offsetIncrement) \in WindowNumbers(Len(faces[1])))
        /\ (pc[1] = "batch" /\ pc'[1] = "loop")
           => (/\ offset'[1] = offset[1]
               /\ Len(batchFaces'[1]) = Cardinality(WindowPositions(offset[1] \div offsetIncrement,
                                                                    Len(faces[1])))
               /\ \A p \in WindowPositions(offset[1] \div offsetIncrement, Len(faces[1])) :
                      \E k \in DOMAIN batchFaces'[1] : batchFaces'[1][k] = faces[1][p + 1])
        /\ (pc[1] \in {"batch", "loop", "yield", "proc"} /\ offset'[1] # offset[1])
           => (/\ offset'[1] = offset[1] + offsetIncrement
               /\ (pc'[1] = "batch" <=>
                       (offset'[1] \div offsetIncrement) \in WindowNumbers(Len(faces[1])))
               /\ (pc'[1] = "done" <=> offset'[1] >= Len(faces[1])))
        /\ (pc[1] \in {"loop", "yield", "proc"} /\ pc'[1] \in {"batch", "done"})
           => offset'[1] # offset[1]
        /\ (pc[1] = "batch")
           => (LET total == Len(faces[1])
               IN  /\ \A p \in 0 .. total - 1 :
                          \E k \in WindowNumbers(total) : p \in WindowPositions(k, total)
                   /\ \A k \in WindowNumbers(total) :
                          (k + 1) * offsetIncrement + batchSize <= total
                          => Cardinality(WindowPositions(k, total)
                                             \cap WindowPositions(k + 1, total))
                                 = batchSize - offsetIncrement) ]_vars

(* A run over two full windows and shorter ones is complete; it entered the loop in several of them. *)
C25_Witness ==
    /\ pc[1] = "done"
    /\ Len(faces[1]) >= batchSize + offsetIncrement
    /\ offset[1] >= Len(faces[1])
    /\ Len(clusters[1]) >= 2
    /\ Len(progress[1]) > Cardinality(WindowNumbers(Len(faces[1])))

(* The positions of the cgroups with an assigned cluster whose face list differs in cs. *)
GroupsWithChangedContent(cgroupEntities, cs) ==
    {g \in DOMAIN cgroupEntities :
        \E k \in DOMAIN cgroupEntities[g].assigned :
            \E c \in DOMAIN cs :
                /\ cs[c].id = cgroupEntities[g].assigned[k].id
                /\ cs[c].faces # cgroupEntities[g].assigned[k].faces}

(***************************************************************************)
(* C26: when reconcile compares the partition of a run with the cgroups    *)
(* the run was seeded from, the face list of an assigned cluster differs   *)
(* from the recorded one if and only if the two differ in length (the      *)
(* recorded list is a prefix of the current one); the cgroups reconcile    *)
(* puts in the update are exactly those with a cluster of changed content. *)
(***************************************************************************)
C26_LengthComparisonSuffices ==
    /\ pc[1] \in {"done", "redo"} =>
           \A g \in DOMAIN cgroups :
               \A k \in DOMAIN cgroups[g].assigned :
                   \A c \in DOMAIN clusters[1] :
                       clusters[1][c].id = cgroups[g].assigned[k].id =>
                           /\ IsPrefix(cgroups[g].assigned[k].faces, clusters[1][c].faces)
                           /\ (clusters[1][c].faces # cgroups[g].assigned[k].faces
                                   <=> Len(clusters[1][c].faces)
                                           # Len(cgroups[g].assigned[k].faces))
    /\ pc[1] \in {"update", "save"} =>
           /\ {changed[1][m].id : m \in DOMAIN changed[1]}
                  = {fetched[1][g].id : g \in GroupsWithChangedContent(fetched[1], clusters[1])}
           /\ Len(changed[1]) = Cardinality(GroupsWithChangedContent(fetched[1], clusters[1]))

(* Of two cgroups one has a cluster with a face more than recorded; the update is about to be issued for it alone. *)
C26_Witness ==
    /\ pc[1] = "update"
    /\ Len(fetched[1]) = 2
    /\ Cardinality(GroupsWithChangedContent(fetched[1], clusters[1])) = 1
    /\ Len(changed[1]) = 1
    /\ \E k \in DOMAIN changed[1][1].assigned :
           \E g \in DOMAIN fetched[1] :
               /\ fetched[1][g].id = changed[1][1].id
               /\ Len(changed[1][1].assigned[k].faces) > Len(fetched[1][g].assigned[k].faces)

(* clusterBatchLinear on the window at off, then the rest of the windows: a run on its own. *)
RECURSIVE BatchLoop(_, _, _)
BatchLoop(st, fs, off) ==
    IF LoopHeader(off, Len(fs)) = "done" THEN st
    ELSE LET batch == Slice(fs, off, off + batchSize)
             Body(v) ==
                 LET IsClustered(face) == face.faceID \in DOMAIN v.id
                     IsUnclustered(face) == ~IsClustered(face)
                     clusteredFaces == SelectSeq(batch, IsClustered)
                     unclusteredFaces == SelectSeq(batch, IsUnclustered)
                 IN  IF unclusteredFaces = <<>>
                     THEN BatchLoop(v, fs, off + offsetIncrement)
                     ELSE BatchLoop(
                              PerFaceLoop(v, clusteredFaces \o unclusteredFaces, 0),
                              fs, off + offsetIncrement)
         IN  CHOOSE out \in {Body(v) : v \in {st}} : TRUE

(* The state run r returns if, from here on, it runs on its own. *)
RestOfRun(r) ==
    IF pc[r] = "batch" THEN BatchLoop(StateOf(r), faces[r], offset[r])
    ELSE IF pc[r] \in {"loop", "yield", "proc"}
    THEN BatchLoop(PerFaceLoop(StateOf(r), batchFaces[r], i[r]),
                   faces[r], offset[r] + offsetIncrement)
    ELSE StateOf(r)

(* A partition without the names of the generated ids. *)
PartitionOf(st) ==
    [faces |-> [c \in DOMAIN st.clusters |-> st.clusters[c].faces],
     ids |-> [c \in DOMAIN st.clusters |->
                 IF st.clusters[c].id < FreshBase THEN st.clusters[c].id ELSE FreshBase],
     index |-> st.index]

(***************************************************************************)
(* C27: the clustering state belongs to one run. While the steps of two    *)
(* runs, and of the reconciliation of one of them, interleave at every     *)
(* await, the partition a bootstrapped run holds or is to return is, in    *)
(* every state, the one it returns when it runs on its own from the state  *)
(* it entered its batch loop with (up to the names of the generated ids):  *)
(* no step of the other worker is seen in it.                              *)
(***************************************************************************)
C27_StateExclusiveToRun ==
    \A r \in Workers :
        Bootstrapped(r) =>
            /\ PartitionOf(RestOfRun(r))
                   = PartitionOf(BatchLoop(atBootstrap[r], faces[r], 0))
            /\ pc[r] = "done" =>
                   PartitionOf(StateOf(r))
                       = PartitionOf(BatchLoop(atBootstrap[r], faces[r], 0))

(* Run 2 is waiting at a yield, past its first face, while the reconciliation of run 1 has rewritten a cgroup that run 2 was seeded from. *)
C27_Witness ==
    /\ pc[1] = "save"
    /\ updateCalls # <<>>
    /\ pc[2] = "yield"
    /\ i[2] > 0
    /\ Len(RemoteClusters(cgroups)) > 0
    /\ RemoteClusters(cgroups)
           # SubSeq(atBootstrap[2].clusters, 1, Len(RemoteClusters(cgroups)))
    /\ \E c \in DOMAIN clusters[2] :
           Len(clusters[1][c].faces) > Len(clusters[2][c].faces)

(* The eligible faces of run n whose file is not among the local files. *)
UnresolvedFaces(n) ==
    {k \in DOMAIN RunFaces(n) : RunFaces(n)[k].faceID \notin localFiles}

(***************************************************************************)
(* C28: if the file of an eligible face of a run is not among the local    *)
(* files, the run fails at its first step: it reads no saved cgroup and no *)
(* saved cluster, reports no progress and returns no partition (its        *)
(* cluster list, maps and face list stay empty, and it never gets to the   *)
(* batch loop or to done).  The missing file of a face that the filter     *)
(* rejects fails nothing.                                                  *)
(***************************************************************************)
C28_UnresolvedFileFailsFirst ==
    [][ /\ (pc[1] = "start" /\ UnresolvedFaces(runNo[1]) # {})
           => /\ pc'[1] = "unresolved"
              /\ clusters'[1] = <<>> /\ faces'[1] = <<>>
              /\ faceIDToClusterID'[1] = EmptyMap
              /\ faceIDToClusterIndex'[1] = EmptyMap
              /\ progress'[1] = <<>>
              /\ storeVars' = storeVars
        /\ (pc[1] = "start" /\ UnresolvedFaces(runNo[1]) = {})
           => pc'[1] = "fetched"
        /\ pc[1] = "unresolved" => pc'[1] = "unresolved" ]_vars

(* A second run failed on a face indexed after the first run, whose file is missing; the first run had saved its clusters. *)
C28_Witness ==
    /\ pc[1] = "unresolved"
    /\ runNo[1] = 2
    /\ held # 0
    /\ held \notin localFiles
    /\ 9 \notin localFiles
    /\ (cgroups # <<>> \/ localClusters # <<>>)
    /\ saveCalls # <<>>
    /\ clusters[1] = <<>>
    /\ progress[1] = <<>>

(* Every face of the run of worker 1 is a key of the face-to-cluster map. *)
AllFacesClustered ==
    \A k \in DOMAIN faces[1] : faces[1][k].faceID \in DOMAIN faceIDToClusterID[1]

(***************************************************************************)
(* C29: under a host that resumes the run after every yield, a run whose   *)
(* faces all have a local file completes: after finitely many steps it is  *)
(* done, every batch finished, and it holds a partition with every face of *)
(* its list in a cluster.                                                  *)
(***************************************************************************)
C29_RunCompletes ==
    (pc[1] = "start" /\ UnresolvedFaces(runNo[1]) = {})
        ~> (pc[1] = "done" /\ offset[1] >= Len(faces[1]) /\ AllFacesClustered)

(* A run is done after several batches and after more than two yields. *)
C29_Witness ==
    /\ pc[1] = "done"
    /\ offset[1] > offsetIncrement
    /\ Len(faces[1]) = MaxFaces
    /\ Len(progress[1]) > 4
    /\ AllFacesClustered

(* The faces before position pos of the working order of worker 1 that have no cluster index inside the cluster list. *)
UnindexedBefore(pos) ==
    {j \in 0 .. pos - 1 :
        \/ batchFaces[1][j + 1].faceID \notin DOMAIN faceIDToClusterIndex[1]
        \/ faceIDToClusterIndex[1][batchFaces[1][j + 1].faceID] < 0
        \/ faceIDToClusterIndex[1][batchFaces[1][j + 1].faceID] >= Len(clusters[1])}

(***************************************************************************)
(* C30: when the loop body is about to run for an unclustered face at      *)
(* position i of the working order, every face at a position j < i is a    *)
(* key of the face-to-cluster-index map with an index inside the cluster   *)
(* list, and so is every key of that map in a bootstrapped run; the run    *)
(* never fails on the lookup of the neighbour's cluster.                   *)
(***************************************************************************)
C30_NeighbourLookupNeverFails ==
    /\ (AtFace(1) /\ ~SkipsFace(faceIDToClusterID[1], batchFaces[1][i[1] + 1].faceID))
           => UnindexedBefore(i[1]) = {}
    /\ Bootstrapped(1) =>
           /\ DOMAIN faceIDToClusterIndex[1] = DOMAIN faceIDToClusterID[1]
           /\ \A faceID \in DOMAIN faceIDToClusterIndex[1] :
                  /\ faceIDToClusterIndex[1][faceID] \in 0 .. Len(clusters[1]) - 1
                  /\ clusters[1][faceIDToClusterIndex[1][faceID] + 1].id
                         = faceIDToClusterID[1][faceID]
    /\ ~(pc[1] = "failed" /\ reconNo[1] = 0)

(* The loop body is about to run for an unclustered face that has a neighbour within the threshold, after seeded and new faces. *)
C30_Witness ==
    /\ AtFace(1)
    /\ i[1] >= 2
    /\ nClustered[1] >= 1
    /\ nClustered[1] < i[1]
    /\ ~SkipsFace(faceIDToClusterID[1], batchFaces[1][i[1] + 1].faceID)
    /\ NearestNeighbour(batchFaces[1], i[1]).nnIndex # NoIndex
    /\ UnindexedBefore(i[1]) = {}

(***************************************************************************)
(* C31: every progress event the caller of a run has received has          *)
(* 0 <= completed <= total, and total is the number of faces of the        *)
(* ordered input, whichever batch reported it: a full one, the last and    *)
(* shorter one, or one that took the early exit.                           *)
(***************************************************************************)
C31_ProgressWithinTotal ==
    \A k \in DOMAIN progress[1] :
        /\ progress[1][k].total = Len(faces[1])
        /\ 0 <= progress[1][k].completed
        /\ progress[1][k].completed <= progress[1][k].total

(* A run of several batches is done: its last, shorter batch took the early exit and reported completed = total, and the loop of an earlier batch reported too. *)
C31_Witness ==
    /\ pc[1] = "done"
    /\ Len(faces[1]) > batchSize
    /\ Len(progress[1]) >= 4
    /\ progress[1][1].completed = 0
    /\ progress[1][Len(progress[1])].completed = Len(faces[1])
    /\ \E k \in DOMAIN progress[1] :
           /\ progress[1][k].completed > 0
           /\ progress[1][k].completed < batchSize
    /\ LET last == Max(BatchOffsets(Len(faces[1])))
       IN  Len(Window(faces[1], last)) < batchSize

(* The ids of the assigned clusters of the saved cgroups that the partition cs does not hold. *)
AbsentAssignedIDs(cgroupEntities, cs) ==
    { id \in isRemoteClusterID(cgroupEntities) : \A c \in DOMAIN cs : cs[c].id # id }

(***************************************************************************)
(* C32: when reconcile is called with a partition that lacks an assigned   *)
(* cluster id of a saved cgroup, its first step fails: no update call and  *)
(* no save is issued, the saved cgroups and the saved clusters stay as     *)
(* they are, and nothing follows the failure.  A partition that holds      *)
(* every assigned id does not fail there.                                  *)
(***************************************************************************)
C32_MissingClusterFailsBeforeWrites ==
    [][ /\ (pc[1] \in {"done", "redo"} /\ AbsentAssignedIDs(cgroups, clusters[1]) # {})
           => (pc'[1] = "failed" /\ storeVars' = storeVars /\ changed' = changed)
        /\ (pc[1] \in {"done", "redo"} /\ AbsentAssignedIDs(cgroups, clusters[1]) = {})
           => pc'[1] \in {"update", "save"}
        /\ pc[1] = "failed" => vars' = vars ]_vars

(* Reconcile failed on an absent assigned cluster although a cluster of a cgroup had grown and a cluster was in no cgroup; nothing was written. *)
C32_Witness ==
    /\ pc[1] = "failed"
    /\ reconNo[1] = 1
    /\ AbsentAssignedIDs(cgroups, clusters[1]) # {}
    /\ \E g \in DOMAIN cgroups :
           \E k \in DOMAIN cgroups[g].assigned :
               \E c \in DOMAIN clusters[1] :
                   /\ clusters[1][c].id = cgroups[g].assigned[k].id
                   /\ Len(clusters[1][c].faces) > Len(cgroups[g].assigned[k].faces)
    /\ LocalOnlyClusters(clusters[1], cgroups) # <<>>
    /\ updateCalls = <<>>
    /\ saveCalls = <<>>

(* The written cgroup holds the clusters of the recorded one, id by id and position by position, none of them with a recorded face removed. *)
KeepsClustersAndMembers(written, recorded) ==
    /\ written.id = recorded.id
    /\ DOMAIN written.assigned = DOMAIN recorded.assigned
    /\ \A k \in DOMAIN recorded.assigned :
           /\ written.assigned[k].id = recorded.assigned[k].id
           /\ Range(recorded.assigned[k].faces) \subseteq Range(written.assigned[k].faces)

(***************************************************************************)
(* C33: every cgroup written by an update call is a saved cgroup, with     *)
(* the same assigned cluster ids in the same positions and with every      *)
(* recorded face of each cluster still in its face list; the store after   *)
(* the call holds the same cgroups, each with the clusters it had and no   *)
(* member removed.                                                         *)
(***************************************************************************)
C33_UpdateKeepsClustersAndMembers ==
    [][ (updateCalls' # updateCalls) =>
            /\ \A m \in DOMAIN updateCalls'[Len(updateCalls')] :
                   \E g \in DOMAIN cgroups :
                       KeepsClustersAndMembers(updateCalls'[Len(updateCalls')][m],
                                               cgroups[g])
            /\ DOMAIN cgroups' = DOMAIN cgroups
            /\ \A g \in DOMAIN cgroups :
                   KeepsClustersAndMembers(cgroups'[g], cgroups[g]) ]_vars

(* An update call wrote a cgroup of two clusters: one with a face more than recorded behind the recorded ones, the other as recorded. *)
C33_Witness ==
    /\ pc[1] = "save"
    /\ updateCalls # <<>>
    /\ \E m \in DOMAIN updateCalls[Len(updateCalls)] :
           \E g \in DOMAIN fetched[1] :
               LET written == updateCalls[Len(updateCalls)][m]
                   recorded == fetched[1][g]
               IN  /\ written.id = recorded.id
                   /\ Len(written.assigned) = 2
                   /\ \E k \in DOMAIN written.assigned :
                          /\ Len(recorded.assigned[k].faces) >= 1
                          /\ IsPrefix(recorded.assigned[k].faces, written.assigned[k].faces)
                          /\ Len(written.assigned[k].faces)
                                 = Len(recorded.assigned[k].faces) + 1
                   /\ \E k \in DOMAIN written.assigned :
                          written.assigned[k] = recorded.assigned[k]
                   /\ cgroups[g].assigned = written.assigned

(* The calls of reconcileClusters by worker 1 that have returned. *)
CompletedReconciles ==
    (runNo[1] - 1)
        + (IF pc[1] \in {"reconciled", "redo"} THEN reconNo[1]
           ELSE IF pc[1] \in {"update", "save", "failed", "updateFailed", "saveFailed"}
           THEN reconNo[1] - 1
           ELSE 0)

(***************************************************************************)
(* C34: a reconcile that does not fail issues the local save exactly once: *)
(* the saves issued so far are as many as the reconciles that returned,    *)
(* each is the last step of its reconcile, is issued also when no cgroup   *)
(* changed and when no cluster is local-only, and, when the reconcile has  *)
(* changed cgroups, comes after the update call for them has completed.    *)
(***************************************************************************)
C34_SavesOnceAfterUpdate ==
    [][ /\ Len(saveCalls') = CompletedReconciles'
        /\ (saveCalls' # saveCalls)
           => (/\ pc[1] = "save" /\ pc'[1] = "reconciled"
               /\ Len(saveCalls') = Len(saveCalls) + 1
               /\ changed[1] # <<>> =>
                      (/\ updateCalls # <<>>
                       /\ updateCalls[Len(updateCalls)] = changed[1]
                       /\ updateCalls' = updateCalls))
        /\ (pc[1] = "update") => saveCalls' = saveCalls
        /\ (pc[1] \in {"done", "redo"} /\ pc'[1] = "save") => changed'[1] = <<>>
        /\ (pc'[1] = "reconciled" /\ pc[1] # "reconciled")
           => (pc[1] = "save" /\ saveCalls' # saveCalls) ]_vars

(* Two reconciles returned: one issued an update call and then its save, the last one had no changed cgroup and no local-only cluster and issued its save all the same. *)
C34_Witness ==
    /\ pc[1] = "reconciled"
    /\ Len(saveCalls) = 2
    /\ Len(updateCalls) = 1
    /\ changed[1] = <<>>
    /\ saveCalls[2] = <<>>
    /\ cgroups # <<>>
====
